---- MODULE Spec2Model ----
(***************************************************************************)
(* Save Eat recommender: the /recommend handler (model path and fallback   *)
(* path), the profile constraint pipeline and initialize_model, modelled   *)
(* from src/src/api/endpoints.py; and the offline part: GraphBuilder       *)
(* (src/src/data/graph_builder.py), Evaluator                              *)
(* (src/src/training/evaluation.py), Trainer.train and InteractionDataset  *)
(* (src/src/training/train.py).  Each part has its own specification over  *)
(* the same variables; the parts it does not follow stay idle.             *)
(*                                                                         *)
(* Conventions.  A Python string is a tuple of one-character strings, so   *)
(* that lower(), strip() and the substring test `a in b` are computed.     *)
(* An optional value (None / NaN column entry) is a tuple of length 0 or   *)
(* 1: <<>> is None, <<v>> is the value v.  A float is an exact rational    *)
(* [n, d] with d > 0; d = 0 is NaN.                                        *)
(***************************************************************************)
EXTENDS Integers, Sequences, FiniteSets, TLC

VARIABLES
    recipes,      \* rows of the Recipe table, in the order a query returns them
    reviews,      \* rows of the Review table
    profiles,     \* UserProfile table: user_id -> optional profile
    db_up,        \* whether the database answers queries
    model,        \* endpoints.model        (optional)
    graph_data,   \* endpoints.graph_data   (optional)
    recipe_data,  \* endpoints.recipe_data  (optional)
    reranker,     \* endpoints.reranker     (optional)
    mappings,     \* endpoints.mappings     (optional)
    initCalls,    \* number of initialize_model calls started so far
    initPc,       \* position of the running initialize_model call
    initFiles,    \* the files that call finds on disk
    recPc,        \* position of the running recommend call
    recSeen,      \* what the running recommend call has read from the globals
    request,      \* the last request handled (optional)
    response,     \* the response to it (optional)
    response2,    \* the response to the same request sent a second time (optional)
    df_in,        \* pipeline run: recipes_df passed to apply_user_profile_filters
    prof_in,      \* pipeline run: user_profile passed to it
    df_out,       \* pipeline run: the DataFrame it returned (optional)
    gb_interactions, \* graph build: the interactions frame passed to GraphBuilder
    gb_recipes,      \* graph build: the recipes frame passed to it
    gb_mappings,     \* graph build: the id mappings passed to it
    gb_built,        \* graph build: what the last GraphBuilder call returned (optional)
    ev_predictions,  \* metric call: predicted scores, one per item
    ev_ground_truth, \* metric call: relevance of each item
    ev_k,            \* metric call: k
    ev_result,       \* metric call: the metric called and the value returned (optional)
    tr_config,       \* Trainer: num_epochs, early_stopping_patience, whether save_path is given
    tr_pc,           \* Trainer.train: "running", "stopped" (break) or "finished"
    tr_epoch,        \* Trainer.train: the loop variable of the next iteration
    best_val_score,  \* Trainer.best_val_score
    patience_counter, \* Trainer.patience_counter
    history,         \* Trainer.train: history["val_loss"]
    best_model_pt,   \* the file save_path / "best_model.pt" (optional)
    ds_interactions, \* InteractionDataset.interactions
    n_negatives,     \* InteractionDataset.n_negatives
    ds_item,         \* the last index asked for and the item __getitem__ returned (optional)
    pp_interactions, \* DataPreprocessor call: the interactions frame passed in
    pp_recipes,      \* DataPreprocessor call: the recipes frame passed in
    min_user_interactions, \* DataPreprocessor.min_user_interactions
    min_recipe_ratings,    \* DataPreprocessor.min_recipe_ratings
    pp_result,       \* DataPreprocessor call: the method called and what it returned (optional)
    user_profiles,   \* the rows of the user_profiles table
    utcnow,          \* the clock datetime.utcnow() reads
    db_last,         \* the last profile call: its arguments, the table before it, its outcome (optional)
    fb_request,      \* fallback scorer called on its own: the request (optional)
    fb_fault,        \* fallback scorer called on its own: the statement that fails
    fb_response      \* fallback scorer called on its own: what the call returned (optional)

\* the variables of the /recommend handler, its pipeline and initialize_model
servingVars == <<recipes, reviews, profiles, db_up, model, graph_data, recipe_data,
                 reranker, mappings, initCalls, initPc, initFiles, recPc, recSeen,
                 request, response, response2, df_in, prof_in, df_out>>

graphVars == <<gb_interactions, gb_recipes, gb_mappings, gb_built>>

\* the variables of the offline part: graph building, training, evaluation
evalVars == <<ev_predictions, ev_ground_truth, ev_k, ev_result>>

trainVars == <<tr_config, tr_pc, tr_epoch, best_val_score, patience_counter, history,
               best_model_pt>>

datasetVars == <<ds_interactions, n_negatives, ds_item>>

prepVars == <<pp_interactions, pp_recipes, min_user_interactions, min_recipe_ratings,
              pp_result>>

profileVars == <<user_profiles, utcnow, db_last>>

fallbackVars == <<fb_request, fb_fault, fb_response>>

offlineVars == <<graphVars, evalVars, trainVars, datasetVars, prepVars, profileVars,
                 fallbackVars>>

vars == <<servingVars, offlineVars>>

-----------------------------------------------------------------------------
(* Bounds *)

\* Largest number of rows in the Recipe table.
NRecipes == 2

\* Largest top_k a request carries.
MaxTopK == 2

\* Largest number of initialize_model calls in a run of the concurrent model.
MaxInitCalls == 2

-----------------------------------------------------------------------------
(* Optional values *)

None == <<>>

Some(v) == <<v>>

IsNone(o) == o = <<>>

Val(o) == o[1]

-----------------------------------------------------------------------------
(* Strings: str.lower, str.strip, `a in b` *)

UpperChars == <<"A","B","C","D","E","F","G","H","I","J","K","L","M",
                "N","O","P","Q","R","S","T","U","V","W","X","Y","Z">>

LowerChars == <<"a","b","c","d","e","f","g","h","i","j","k","l","m",
                "n","o","p","q","r","s","t","u","v","w","x","y","z">>

\* the lower-case letter of every upper-case letter
ToLower ==
    [c \in {UpperChars[i] : i \in 1..26} |->
        LowerChars[CHOOSE i \in 1..26 : UpperChars[i] = c]]

LowerChar(c) == IF c \in DOMAIN ToLower THEN ToLower[c] ELSE c

Lower(s) == [i \in 1..Len(s) |-> LowerChar(s[i])]

RECURSIVE LStrip(_)
LStrip(s) == IF s # <<>> /\ Head(s) = " " THEN LStrip(Tail(s)) ELSE s

RECURSIVE RStrip(_)
RStrip(s) ==
    IF s # <<>> /\ s[Len(s)] = " " THEN RStrip(SubSeq(s, 1, Len(s) - 1)) ELSE s

Strip(s) == RStrip(LStrip(s))

\* Python `sub in s` for strings
Contains(sub, s) ==
    \E i \in 1..(Len(s) - Len(sub) + 1) : SubSeq(s, i, i + Len(sub) - 1) = sub

Range(f) == {f[i] : i \in DOMAIN f}

\* rows of a DataFrame kept by a boolean mask, order preserved
RECURSIVE SelectRows(_, _)
SelectRows(df, keep) ==
    IF df = <<>> THEN <<>>
    ELSE IF Head(df) \in keep THEN <<Head(df)>> \o SelectRows(Tail(df), keep)
         ELSE SelectRows(Tail(df), keep)

-----------------------------------------------------------------------------
(* Profile filters *)

\* has_allergen of filter_recipes_by_allergies, for one recipe row
has_allergen(ingredients_list, allergies) ==
    /\ ~IsNone(ingredients_list)
    /\ \E k \in DOMAIN Val(ingredients_list) :
         LET ingredient == Val(ingredients_list)[k]
         IN  /\ ingredient # <<>>
             /\ \E a \in DOMAIN allergies :
                  Contains(Strip(Lower(allergies[a])), Strip(Lower(ingredient)))

filter_recipes_by_allergies(recipes_df, allergies) ==
    IF allergies = <<>> THEN recipes_df
    ELSE SelectRows(recipes_df,
           {r \in Range(recipes_df) : ~has_allergen(r.ingredients_list, allergies)})

W_vegetarian == <<"v","e","g","e","t","a","r","i","a","n">>
W_vegan == <<"v","e","g","a","n">>
W_gluten_free == <<"g","l","u","t","e","n","-","f","r","e","e">>
W_dairy_free == <<"d","a","i","r","y","-","f","r","e","e">>
W_low_sugar == <<"l","o","w","-","s","u","g","a","r">>
W_high_protein == <<"h","i","g","h","-","p","r","o","t","e","i","n">>

Meats ==
    {<<"b","e","e","f">>, <<"p","o","r","k">>, <<"c","h","i","c","k","e","n">>,
     <<"f","i","s","h">>, <<"m","e","a","t">>, <<"t","u","r","k","e","y">>,
     <<"l","a","m","b">>, <<"v","e","a","l">>, <<"d","u","c","k">>,
     <<"b","a","c","o","n">>, <<"h","a","m">>, <<"s","a","u","s","a","g","e">>,
     <<"s","e","a","f","o","o","d">>, <<"s","h","r","i","m","p">>,
     <<"s","a","l","m","o","n">>, <<"t","u","n","a">>}

RESTRICTED_INGREDIENTS(restriction) ==
    IF restriction = W_vegetarian THEN Meats
    ELSE IF restriction = W_vegan THEN
        Meats \cup
        {<<"d","a","i","r","y">>, <<"m","i","l","k">>, <<"c","h","e","e","s","e">>,
         <<"e","g","g">>, <<"b","u","t","t","e","r">>, <<"c","r","e","a","m">>,
         <<"y","o","g","u","r","t">>, <<"w","h","e","y">>,
         <<"c","a","s","e","i","n">>, <<"h","o","n","e","y">>,
         <<"g","e","l","a","t","i","n">>}
    ELSE IF restriction = W_gluten_free THEN
        {<<"w","h","e","a","t">>, <<"f","l","o","u","r">>, <<"b","r","e","a","d">>,
         <<"p","a","s","t","a">>, <<"g","l","u","t","e","n">>,
         <<"b","a","r","l","e","y">>, <<"r","y","e">>, <<"o","a","t">>,
         <<"c","e","r","e","a","l">>, <<"c","o","u","s","c","o","u","s">>,
         <<"s","e","m","o","l","i","n","a">>}
    ELSE IF restriction = W_dairy_free THEN
        {<<"m","i","l","k">>, <<"c","h","e","e","s","e">>, <<"b","u","t","t","e","r">>,
         <<"c","r","e","a","m">>, <<"y","o","g","u","r","t">>, <<"d","a","i","r","y">>,
         <<"w","h","e","y">>, <<"c","a","s","e","i","n">>,
         <<"l","a","c","t","o","s","e">>}
    ELSE IF restriction \in {W_low_sugar, W_high_protein} THEN {}
    ELSE {}   \* not a key of the table

forbidden_ingredients(restrictions) ==
    UNION {RESTRICTED_INGREDIENTS(Strip(Lower(restrictions[i]))) :
             i \in DOMAIN restrictions}

has_forbidden_ingredient(ingredients_list, forbidden) ==
    /\ ~IsNone(ingredients_list)
    /\ \E k \in DOMAIN Val(ingredients_list) :
         LET ingredient == Val(ingredients_list)[k]
         IN  /\ ingredient # <<>>
             /\ \E f \in forbidden : Contains(f, Strip(Lower(ingredient)))

filter_recipes_by_dietary_restrictions(recipes_df, restrictions) ==
    IF restrictions = <<>> THEN recipes_df
    ELSE LET forbidden == forbidden_ingredients(restrictions)
         IN  IF forbidden = {} THEN recipes_df
             ELSE SelectRows(recipes_df,
                    {r \in Range(recipes_df) :
                       ~has_forbidden_ingredient(r.ingredients_list, forbidden)})

\* Python truth value of an optional number: None and 0 are falsy
Truthy(o) == ~IsNone(o) /\ Val(o) # 0

\* column value passes `col.isna() | (col <= bound)`
PassMax(v, bound) == IsNone(v) \/ Val(v) <= bound

PassMin(v, bound) == IsNone(v) \/ Val(v) >= bound

filter_recipes_by_nutrition(recipes_df, max_calories, min_protein, max_carbs, max_fat) ==
    IF ~(Truthy(max_calories) \/ Truthy(min_protein) \/ Truthy(max_carbs) \/ Truthy(max_fat))
    THEN recipes_df
    ELSE SelectRows(recipes_df,
           {r \in Range(recipes_df) :
              /\ IsNone(max_calories) \/ PassMax(r.calories, Val(max_calories))
              /\ IsNone(min_protein) \/ PassMin(r.protein, Val(min_protein))
              /\ IsNone(max_carbs) \/ PassMax(r.carbohydrates, Val(max_carbs))
              /\ IsNone(max_fat) \/ PassMax(r.total_fat, Val(max_fat))})

has_disliked_ingredient(ingredients_list, disliked) ==
    /\ ~IsNone(ingredients_list)
    /\ \E k \in DOMAIN Val(ingredients_list) :
         LET ingredient == Val(ingredients_list)[k]
         IN  /\ ingredient # <<>>
             /\ \E d \in DOMAIN disliked :
                  Contains(Strip(Lower(disliked[d])), Strip(Lower(ingredient)))

filter_recipes_by_disliked_ingredients(recipes_df, disliked) ==
    IF disliked = <<>> THEN recipes_df
    ELSE SelectRows(recipes_df,
           {r \in Range(recipes_df) : ~has_disliked_ingredient(r.ingredients_list, disliked)})

\* Python truth value of an optional list: None and [] are falsy
TruthyList(o) == ~IsNone(o) /\ Val(o) # <<>>

\* apply_user_profile_filters, stage 1: allergies
AllergyStage(recipes_df, user_profile) ==
    IF TruthyList(user_profile.allergies)
    THEN filter_recipes_by_allergies(recipes_df, Val(user_profile.allergies))
    ELSE recipes_df

\* stage 2: dietary restrictions
DietaryStage(recipes_df, user_profile) ==
    IF TruthyList(user_profile.dietary_restrictions)
    THEN filter_recipes_by_dietary_restrictions(recipes_df,
             Val(user_profile.dietary_restrictions))
    ELSE recipes_df

\* stage 3: nutrition bounds
NutritionStage(recipes_df, user_profile) ==
    IF \/ Truthy(user_profile.max_calories)
       \/ Truthy(user_profile.min_protein)
       \/ Truthy(user_profile.max_carbs)
       \/ Truthy(user_profile.max_fat)
    THEN filter_recipes_by_nutrition(recipes_df, user_profile.max_calories,
             user_profile.min_protein, user_profile.max_carbs,
             user_profile.max_fat)
    ELSE recipes_df

\* stage 4 left out: the frame passes through whatever the profile dislikes
DislikedStageSkipped(recipes_df, user_profile) == recipes_df

\* stage 4: disliked ingredients
DislikedStage(recipes_df, user_profile) ==
    IF TruthyList(user_profile.disliked_ingredients)
    THEN filter_recipes_by_disliked_ingredients(recipes_df,
             Val(user_profile.disliked_ingredients))
    ELSE recipes_df

\* stage 5: the profile's max_prep_time; a row without prep_time passes
PrepTimeStage(recipes_df, user_profile) ==
    IF Truthy(user_profile.max_prep_time)
    THEN SelectRows(recipes_df,
           {r \in Range(recipes_df) :
              PassMax(r.prep_time, Val(user_profile.max_prep_time))})
    ELSE recipes_df

\* the five stages in sequence, each on the output of the one before
apply_user_profile_filters(recipes_df, user_profile) ==
    PrepTimeStage(
      DislikedStage(
        NutritionStage(
          DietaryStage(
            AllergyStage(recipes_df, user_profile),
            user_profile),
          user_profile),
        user_profile),
      user_profile)

-----------------------------------------------------------------------------
(* Floats as exact rationals; d = 0 is NaN *)

Rat(n, d) == [n |-> n, d |-> d]

NaN == Rat(0, 0)

IsNaN(x) == x.d = 0

\* x <= y for two numbers that are not NaN
RLe(x, y) == x.n * y.d <= y.n * x.d

RLt(x, y) == x.n * y.d < y.n * x.d

\* Series.clip(0, 1.0)
Clip01(x) ==
    IF IsNaN(x) THEN x
    ELSE IF x.n < 0 THEN Rat(0, x.d)
    ELSE IF x.n > x.d THEN Rat(x.d, x.d)
    ELSE x

\* Series.fillna(0.0)
FillNa(x) == IF IsNaN(x) THEN Rat(0, 1) ELSE x

-----------------------------------------------------------------------------
(* Fallback scorer: _get_fallback_recommendations *)

\* reviews_df.groupby("recipe_id")["rating"].mean().to_dict(): a recipe with
\* review rows gets the mean of its non-null ratings, NaN when all are null;
\* a recipe without review rows has no key.  The model keeps at most one
\* rated review per recipe, so that the mean is the rating.
recipe_scores(reviews_df) ==
    [rid \in {rv.recipe_id : rv \in Range(reviews_df)} |->
        LET rated == {rv \in Range(reviews_df) :
                        rv.recipe_id = rid /\ ~IsNone(rv.rating)}
        IN  IF rated = {} THEN NaN
            ELSE Rat(Val((CHOOSE rv \in rated : TRUE).rating), 1)]

\* available_ings: the normalised, non-blank request ingredients
available_ings(available_ingredients) ==
    {Strip(Lower(available_ingredients[i])) :
       i \in {j \in DOMAIN available_ingredients :
                Strip(available_ingredients[j]) # <<>>}}

\* calculate_ingredient_match for a JSON list column value
calculate_ingredient_match(ingredients_val, available) ==
    IF IsNone(ingredients_val) \/ Val(ingredients_val) = <<>>
    THEN [matched |-> 0, total |-> 0, missing |-> {}]
    ELSE LET recipe_ings_set ==
                 {Strip(Lower(x)) : x \in Range(Val(ingredients_val))} \ {<<>>}
         IN  [matched |-> Cardinality(available \cap recipe_ings_set),
              total   |-> Cardinality(recipe_ings_set),
              missing |-> recipe_ings_set \ available]

\* the columns step 4 adds to one row
WithMatch(row, req) ==
    IF TruthyList(req.available_ingredients)
    THEN LET m == calculate_ingredient_match(row.ingredients_list,
                      available_ings(Val(req.available_ingredients)))
         IN  [recipe_id |-> row.recipe_id,
              prep_time |-> row.prep_time,
              ingredients_matched |-> m.matched,
              recipe_total_ingredients |-> m.total,
              ingredients_used_count |-> m.matched,
              missing_ingredients |-> m.missing,
              has_all_ingredients |->
                  /\ m.matched = m.total
                  /\ m.total > 0
                  /\ m.matched > 0
                  /\ m.missing = {}]
    ELSE [recipe_id |-> row.recipe_id,
          prep_time |-> row.prep_time,
          ingredients_matched |-> 0,
          recipe_total_ingredients |-> 0,
          ingredients_used_count |-> 0,
          missing_ingredients |-> {},
          has_all_ingredients |-> FALSE]

\* ingredient_match_ratio >= 0.1 in place of 0.2
RatioAtLeastTenth(row) ==
    /\ row.recipe_total_ingredients > 0
    /\ 10 * row.ingredients_matched >= row.recipe_total_ingredients

\* ingredient_match_ratio >= 0.2, with ratio = matched / total (0.0 when total = 0)
RatioAtLeastFifth(row) ==
    /\ row.recipe_total_ingredients > 0
    /\ 5 * row.ingredients_matched >= row.recipe_total_ingredients

\* step 4: add the match columns and keep the matching rows
IngredientStage(df, req) ==
    LET cols == [i \in DOMAIN df |-> WithMatch(df[i], req)]
    IN  IF TruthyList(req.available_ingredients)
        THEN SelectRows(cols, {r \in Range(cols) :
                 r.ingredients_matched > 0 /\ RatioAtLeastFifth(r)})
        ELSE cols

\* step 5: request.max_time, applied only when the frame has a prep_time column
MaxTimeStage(df, req, has_prep_time_col) ==
    IF Truthy(req.max_time) /\ has_prep_time_col
    THEN SelectRows(df, {r \in Range(df) :
             ~IsNone(r.prep_time) /\ Val(r.prep_time) <= Val(req.max_time)})
    ELSE df

\* raw_score of one recipe
raw_score(rid, scores_dict) ==
    FillNa(IF rid \in DOMAIN scores_dict THEN scores_dict[rid] ELSE Rat(0, 1))

RMax(S) == CHOOSE x \in S : \A y \in S : RLe(y, x)

\* max_popularity always 5.0
max_popularity_always_five(df, scores_dict) == Rat(5, 1)

\* max_popularity over the candidate frame
max_popularity(df, scores_dict) ==
    LET m == RMax({raw_score(r.recipe_id, scores_dict) : r \in Range(df)})
    IN  IF m.n <= 0 THEN Rat(5, 1) ELSE m

\* ScoreOf without the match-ratio term and the completeness bonus
ScoreOfUsageOnly(row, df, req, scores_dict) ==
    LET raw  == raw_score(row.recipe_id, scores_dict)
        maxp == max_popularity(df, scores_dict)
    IN  IF TruthyList(req.available_ingredients)
        THEN Clip01(Rat(
               65 * row.ingredients_used_count * raw.d * maxp.n
               + 10 * raw.n * maxp.d * Len(Val(req.available_ingredients)),
               100 * Len(Val(req.available_ingredients)) * raw.d * maxp.n))
        ELSE Rat(raw.n * maxp.d, raw.d * maxp.n)

\* step 6: the score of one candidate row
ScoreOf(row, df, req, scores_dict) ==
    LET raw  == raw_score(row.recipe_id, scores_dict)
        maxp == max_popularity(df, scores_dict)
        \* popularity_score = raw / maxp
        popn == raw.n * maxp.d
        popd == raw.d * maxp.n
    IN  IF TruthyList(req.available_ingredients)
        THEN LET ta == Len(Val(req.available_ingredients))
                 tr == row.recipe_total_ingredients
                 trd == IF tr > 0 THEN tr ELSE 1
                 bonus == IF row.has_all_ingredients THEN 20 ELSE 0
             IN  Clip01(Rat(
                   65 * row.ingredients_used_count * trd * popd
                   + 25 * row.ingredients_matched * ta * popd
                   + 10 * popn * ta * trd
                   + bonus * ta * trd * popd,
                   100 * ta * trd * popd))
        ELSE Rat(popn, popd)

\* DataFrame.sort_values("score", ascending=False): ties keep the frame order
RECURSIVE SortByScoreDesc(_)
SortByScoreDesc(df) ==
    IF df = <<>> THEN <<>>
    ELSE LET i == CHOOSE j \in DOMAIN df :
                    /\ \A k \in DOMAIN df : RLe(df[k].score, df[j].score)
                    /\ \A k \in 1..(j - 1) : RLt(df[k].score, df[j].score)
         IN  <<df[i]>> \o
             SortByScoreDesc(SubSeq(df, 1, i - 1) \o SubSeq(df, i + 1, Len(df)))

Min(a, b) == IF a <= b THEN a ELSE b

\* the cleaning loop over the returned scores
clean_score(s) == IF IsNaN(s) THEN Rat(0, 1) ELSE s

\* Explain with the partial match worded "uses M/N ingredients (P%)"
ExplainPartialAsUses(row) ==
    IF row.ingredients_used_count > 0
    THEN [kind |-> IF row.has_all_ingredients THEN "has_all" ELSE "uses",
          recipe_id |-> row.recipe_id,
          used |-> row.ingredients_used_count,
          total |-> row.recipe_total_ingredients,
          pct |-> (100 * row.ingredients_matched) \div row.recipe_total_ingredients,
          missing_count |-> row.recipe_total_ingredients - row.ingredients_used_count,
          shown |-> 0]
    ELSE [kind |-> "popular", recipe_id |-> row.recipe_id,
          used |-> 0, total |-> 0, pct |-> 0, missing_count |-> 0, shown |-> 0]

\* step 8: the explanation of one returned row
Explain(row) ==
    IF row.ingredients_used_count > 0
    THEN LET used == row.ingredients_used_count
             recipe_total == row.recipe_total_ingredients
             match_pct == (100 * row.ingredients_matched) \div recipe_total
             missing_count == recipe_total - used
             shown == Min(3, Cardinality(row.missing_ingredients))
             has_all == /\ row.has_all_ingredients
                        /\ missing_count = 0
                        /\ used = recipe_total
                        /\ recipe_total > 0
         IN  [kind |-> IF has_all THEN "has_all"
                       ELSE IF missing_count > 0 THEN "missing"
                       ELSE "uses",
              recipe_id |-> row.recipe_id,
              used |-> used, total |-> recipe_total, pct |-> match_pct,
              missing_count |-> missing_count, shown |-> shown]
    ELSE [kind |-> "popular", recipe_id |-> row.recipe_id,
          used |-> 0, total |-> 0, pct |-> 0, missing_count |-> 0, shown |-> 0]

\* a one-sentence message carried in `explanations`
Message(kind) ==
    [kind |-> kind, recipe_id |-> 0, used |-> 0, total |-> 0, pct |-> 0,
     missing_count |-> 0, shown |-> 0]

RecommendationResponse(path, recipe_ids, scores, explanations) ==
    [status |-> "ok", path |-> path, recipe_ids |-> recipe_ids,
     scores |-> scores, explanations |-> explanations]

\* step 3: the frame after the profile stage, and whether it still has the
\* prep_time column (the relaxed reload selects Recipe.minutes without alias)
ProfileStage(recipes_df, req, user_profile) ==
    IF req.use_profile /\ ~IsNone(user_profile)
    THEN LET filtered == apply_user_profile_filters(recipes_df, Val(user_profile))
         IN  IF filtered = <<>>
             THEN [df |-> recipes_df, has_prep_time_col |-> FALSE]
             ELSE [df |-> filtered, has_prep_time_col |-> TRUE]
    ELSE [df |-> recipes_df, has_prep_time_col |-> TRUE]

\* steps 4 and 5 on the frame the profile stage left
CandidateStage(ps, req) ==
    MaxTimeStage(IngredientStage(ps.df, req), req, ps.has_prep_time_col)

\* step 6: the score column, NaN filled with 0
ScoreStage(cand, req, scores_dict) ==
    [i \in DOMAIN cand |->
        [row |-> cand[i],
         score |-> FillNa(ScoreOf(cand[i], cand, req, scores_dict))]]

\* step 7: sort_values(...).head(top_k)
HeadTopK(sorted, top_k) == SubSeq(sorted, 1, Min(top_k, Len(sorted)))

\* steps 7 and 8: ids, cleaned scores and explanations of the returned rows
FallbackResponse(top_recipes) ==
    RecommendationResponse("fallback",
      [i \in DOMAIN top_recipes |-> top_recipes[i].row.recipe_id],
      [i \in DOMAIN top_recipes |-> clean_score(top_recipes[i].score)],
      [i \in DOMAIN top_recipes |-> Explain(top_recipes[i].row)])

_get_fallback_recommendations(req, recipes_df, reviews_df, user_profile, db_ok) ==
    IF ~db_ok
    THEN RecommendationResponse("fallback", <<>>, <<>>, <<Message("error")>>)
    ELSE IF recipes_df = <<>>
    THEN RecommendationResponse("fallback", <<>>, <<>>, <<Message("no_recipes")>>)
    ELSE FallbackResponse(
           HeadTopK(
             SortByScoreDesc(
               ScoreStage(
                 CandidateStage(ProfileStage(recipes_df, req, user_profile), req),
                 req, recipe_scores(reviews_df))),
             req.top_k))

-----------------------------------------------------------------------------
(* Model path of recommend *)

\* np.argsort(scores)[::-1]: descending, NaN first, ties by descending index
RECURSIVE ArgsortDesc(_, _)
ArgsortDesc(scores, idxs) ==
    IF idxs = {} THEN <<>>
    ELSE LET Ge(a, b) == IsNaN(a) \/ (~IsNaN(b) /\ RLe(b, a))
             tops == {i \in idxs : \A k \in idxs : Ge(scores[i], scores[k])}
             i == CHOOSE j \in tops : \A k \in tops : k <= j
         IN  <<i>> \o ArgsortDesc(scores, idxs \ {i})

Prefix(s, n) == SubSeq(s, 1, Min(n, Len(s)))

\* HybridGNN.forward followed by the dot product with the user's embedding:
\* one base score per recipe index, fixed by the weights.
\* "asc": later recipes score higher; "nan": a weight is NaN, so the first
\* recipe's score is NaN and the others tie at 0.
BaseScores(mdl, n_recipes) ==
    [i \in 1..n_recipes |->
        IF mdl.weights = "asc" THEN Rat(i, 1)
        ELSE IF i = 1 THEN NaN ELSE Rat(0, 1)]

\* the row of recipe_data with this recipe_id (first match), if any
RecipeRow(rd, recipe_id) ==
    LET hits == {i \in DOMAIN rd.rows : rd.rows[i].recipe_id = recipe_id}
    IN  IF hits = {} THEN None
        ELSE Some(rd.rows[CHOOSE i \in hits : \A k \in hits : i <= k])

\* recipe_ingredients as recommend reads it: a missing list is []
RowIngredients(row) ==
    IF IsNone(row.ingredients_list) THEN <<>> ELSE Val(row.ingredients_list)

\* ContextualReranker.encode_context: the ingredient features
encode_context(available_ingredients, recipe_ingredients) ==
    LET available_set == {Strip(Lower(x)) : x \in Range(available_ingredients)}
        recipe_set == {Strip(Lower(x)) : x \in Range(recipe_ingredients)}
    IN  [overlap |-> Cardinality(available_set \cap recipe_set),
         n_recipe |-> Cardinality(recipe_set),
         n_available |-> Cardinality(available_set)]

\* ContextualReranker.forward: torch.cat gives 1 + context_dim columns, the
\* first Linear layer takes input_dim + context_dim
forward_raises(rr) == 1 + rr.context_dim # rr.input_dim + rr.context_dim

\* the adjusted score the network gives one candidate
mlp(rr, base, ctx) ==
    IF IsNaN(base) THEN NaN
    ELSE Rat(rr.w_base * base.n + rr.w_overlap * ctx.overlap * base.d, base.d)

HasContext(req) ==
    \/ TruthyList(req.available_ingredients)
    \/ Truthy(req.max_time)
    \/ TruthyList(req.dietary_preferences)

\* recipe_ingredients of the candidate at recipe index idx
CandidateIngredients(idx, mp, rd) ==
    RowIngredients(Val(RecipeRow(rd, mp.idx_to_recipe[idx])))

\* lines 612-636: the re-ranker's scores give the order of the candidates
RerankedOrder(req, reranked_scores, top_k_indices) ==
    [i \in DOMAIN Prefix(ArgsortDesc(reranked_scores, DOMAIN reranked_scores),
                         req.top_k) |->
       top_k_indices[ArgsortDesc(reranked_scores, DOMAIN reranked_scores)[i]]]

\* lines 586-636: re-ranking of the first 2 * top_k candidates
Rerank(req, scores, top_k_indices, rr, mp, rd) ==
    IF \E i \in DOMAIN top_k_indices :
          \/ top_k_indices[i] \notin DOMAIN mp.idx_to_recipe
          \/ IsNone(RecipeRow(rd, mp.idx_to_recipe[top_k_indices[i]]))
    THEN [raised |-> TRUE, idx |-> <<>>, reranked |-> FALSE]
    ELSE IF top_k_indices = <<>>
    THEN [raised |-> FALSE,
          idx |-> Prefix(ArgsortDesc(scores, DOMAIN scores), req.top_k),
          reranked |-> FALSE]
    ELSE IF forward_raises(rr)
    THEN [raised |-> TRUE, idx |-> <<>>, reranked |-> FALSE]
    ELSE [raised |-> FALSE,
          idx |-> RerankedOrder(req,
                    [i \in DOMAIN top_k_indices |->
                       mlp(rr, scores[top_k_indices[i]],
                           encode_context(
                             IF IsNone(req.available_ingredients) THEN <<>>
                             ELSE Val(req.available_ingredients),
                             CandidateIngredients(top_k_indices[i], mp, rd)))],
                    top_k_indices),
          reranked |-> TRUE]

\* re-ranking of every recipe, not of the first 2 * top_k only
SelectTopAllCandidates(req, scores, rr, mp, rd) ==
    IF HasContext(req) /\ ~IsNone(rr)
    THEN Rerank(req, scores, ArgsortDesc(scores, DOMAIN scores), Val(rr), mp, rd)
    ELSE [raised |-> FALSE,
          idx |-> Prefix(ArgsortDesc(scores, DOMAIN scores), req.top_k),
          reranked |-> FALSE]

\* lines 581-636: the recipe indices selected, or an exception
SelectTop(req, scores, rr, mp, rd) ==
    IF HasContext(req) /\ ~IsNone(rr)
    THEN Rerank(req, scores,
                Prefix(ArgsortDesc(scores, DOMAIN scores), 2 * req.top_k),
                Val(rr), mp, rd)
    ELSE [raised |-> FALSE,
          idx |-> Prefix(ArgsortDesc(scores, DOMAIN scores), req.top_k),
          reranked |-> FALSE]

\* lines 662-681: the allergy test of the model path for one recipe row
should_include(row, user_profile) ==
    IF TruthyList(user_profile.allergies)
    THEN ~\E a \in DOMAIN Val(user_profile.allergies) :
            \E k \in DOMAIN RowIngredients(row) :
               Contains(Strip(Lower(Val(user_profile.allergies)[a])),
                        Lower(RowIngredients(row)[k]))
    ELSE TRUE

\* lines 644-694: positions of the selection kept by the profile filter
ProfileKeep(req, ids, rd, user_profile) ==
    IF req.use_profile /\ ids # <<>> /\ ~IsNone(user_profile)
    THEN LET kept == {i \in DOMAIN ids :
                        /\ ~IsNone(RecipeRow(rd, ids[i]))
                        /\ should_include(Val(RecipeRow(rd, ids[i])), Val(user_profile))}
         IN  IF kept # {} THEN kept ELSE DOMAIN ids
    ELSE DOMAIN ids

RECURSIVE SubSeqAt(_, _, _)
\* the entries of s at the positions in keep, order preserved, from position i on
SubSeqAt(s, keep, i) ==
    IF i > Len(s) THEN <<>>
    ELSE IF i \in keep THEN <<s[i]>> \o SubSeqAt(s, keep, i + 1)
         ELSE SubSeqAt(s, keep, i + 1)

HTTPException == [status |-> "error", path |-> "model", recipe_ids |-> <<>>,
                  scores |-> <<>>, explanations |-> <<>>]

\* lines 696-714: explanations of the recipes found in recipe_data, and the
\* response; fb is the response of the fallback scorer
ModelResponse(recipe_ids, final_scores, rd, reranked, fb) ==
    IF recipe_ids = <<>> THEN fb
    ELSE [status |-> "ok",
          path |-> IF reranked THEN "model_reranked" ELSE "model",
          recipe_ids |-> recipe_ids,
          scores |-> final_scores,
          explanations |->
            SubSeqAt([i \in DOMAIN recipe_ids |->
                        [Message("recommended") EXCEPT !.recipe_id = recipe_ids[i]]],
                     {i \in DOMAIN recipe_ids :
                        ~IsNone(RecipeRow(rd, recipe_ids[i]))}, 1)]

\* lines 644-694: the selection cut down to the positions the profile keeps
Filtered(ids, sc, keep, rd, reranked, fb) ==
    ModelResponse(SubSeqAt(ids, keep, 1), SubSeqAt(sc, keep, 1), rd, reranked, fb)

\* lines 638-694: ids and scores of the selected indices, then the profile
Selected(req, scores, sel, mp, rd, user_profile, fb) ==
    IF sel.raised THEN HTTPException
    ELSE Filtered([i \in DOMAIN sel.idx |-> mp.idx_to_recipe[sel.idx[i]]],
                  [i \in DOMAIN sel.idx |-> scores[sel.idx[i]]],
                  ProfileKeep(req,
                    [i \in DOMAIN sel.idx |-> mp.idx_to_recipe[sel.idx[i]]],
                    rd, user_profile),
                  rd, sel.reranked, fb)

\* lines 581-714 on the scores of the forward pass
Ranked(req, scores, rr, mp, rd, user_profile, fb) ==
    Selected(req, scores, SelectTop(req, scores, rr, mp, rd), mp, rd,
             user_profile, fb)

\* lines 563-714, after the user index was found.  fb is the response the
\* fallback scorer gives this request.
ModelPath(req, mdl, rr, mp, rd, user_profile, fb) ==
    IF ~mdl.initialised THEN HTTPException       \* no embedding tables yet
    ELSE IF Len(mp.idx_to_recipe) = 0 THEN HTTPException  \* scores.min() of an empty array
    ELSE IF Len(mp.idx_to_recipe) = 1 THEN HTTPException  \* len() of a 0-d array
    ELSE Ranked(req, BaseScores(mdl, Len(mp.idx_to_recipe)), rr, mp, rd,
                user_profile, fb)

\* Dispatch with the user index read by mappings["user_to_idx"][user_id]:
\* an unseen user raises KeyError
DispatchColdStartRaises(req, mdl, gd, rd, rr, mp, user_profile, fb) ==
    IF IsNone(mdl) \/ IsNone(gd) \/ IsNone(rd) \/ IsNone(mp) THEN fb
    ELSE IF req.user_id \notin DOMAIN Val(mp).user_to_idx THEN HTTPException
    ELSE ModelPath(req, Val(mdl), rr, Val(mp), Val(rd), user_profile, fb)

\* lines 553-561: the bundle check and the user lookup, then the model path
Dispatch(req, mdl, gd, rd, rr, mp, user_profile, fb) ==
    IF IsNone(mdl) \/ IsNone(gd) \/ IsNone(rd) \/ IsNone(mp) THEN fb
    ELSE IF req.user_id \notin DOMAIN Val(mp).user_to_idx THEN fb
    ELSE ModelPath(req, Val(mdl), rr, Val(mp), Val(rd), user_profile, fb)

\* recommend leaving out the recipes the previous answer already listed
recommend_skip_served(req, mdl, gd, rd, rr, mp, recipes_df, reviews_df, user_profile, db_ok) ==
    LET r == Dispatch(req, mdl, gd, rd, rr, mp, user_profile,
                      _get_fallback_recommendations(req, recipes_df, reviews_df,
                                                    user_profile, db_ok))
        fresh == {i \in DOMAIN r.recipe_ids :
                    IsNone(response)
                    \/ r.recipe_ids[i] \notin Range(Val(response).recipe_ids)}
    IN  [r EXCEPT !.recipe_ids = SubSeqAt(r.recipe_ids, fresh, 1),
                  !.scores = SubSeqAt(r.scores, fresh, 1)]

\* recommend, all of it, on one reading of the globals
recommend(req, mdl, gd, rd, rr, mp, recipes_df, reviews_df, user_profile, db_ok) ==
    Dispatch(req, mdl, gd, rd, rr, mp, user_profile,
             _get_fallback_recommendations(req, recipes_df, reviews_df,
                                           user_profile, db_ok))

-----------------------------------------------------------------------------
(* The store: Recipe, Review and UserProfile tables *)

egg == <<"e","g","g">>
flour == <<"f","l","o","u","r">>
EggSp == <<"E","g","g"," ">>
Nuts == <<"N","u","t","s">>
butter == <<"b","u","t","t","e","r">>
ham == <<"h","a","m">>
Nut == <<"N","u","t">>
Vegan == <<"V","e","g","a","n">>

\* The recipes the tables are filled from.  rating: <<>> no review row,
\* <<None>> a review row without rating, <<Some(r)>> a review rated r.
RecipeKinds ==
    { [ingredients_list |-> Some(<<egg, flour>>), prep_time |-> Some(10),
       calories |-> Some(200), protein |-> Some(10), carbohydrates |-> Some(20),
       total_fat |-> Some(5), rating |-> <<Some(4)>>],
      [ingredients_list |-> Some(<<EggSp, flour, Nuts, butter>>), prep_time |-> Some(30),
       calories |-> Some(500), protein |-> Some(5), carbohydrates |-> Some(60),
       total_fat |-> Some(30), rating |-> <<Some(4)>>],
      [ingredients_list |-> None, prep_time |-> None,
       calories |-> None, protein |-> None, carbohydrates |-> None,
       total_fat |-> None, rating |-> <<None>>],
      [ingredients_list |-> Some(<<ham>>), prep_time |-> Some(50),
       calories |-> Some(100), protein |-> Some(20), carbohydrates |-> Some(0),
       total_fat |-> Some(10), rating |-> <<Some(2)>>] }

\* recipe_id of the i-th row (the primary key)
RecipeId(i) == 10 + i

RecipeRows(kinds) ==
    [i \in DOMAIN kinds |->
        [recipe_id |-> RecipeId(i),
         ingredients_list |-> kinds[i].ingredients_list,
         prep_time |-> kinds[i].prep_time,
         calories |-> kinds[i].calories,
         protein |-> kinds[i].protein,
         carbohydrates |-> kinds[i].carbohydrates,
         total_fat |-> kinds[i].total_fat]]

RECURSIVE ReviewRows(_, _)
ReviewRows(kinds, i) ==
    IF i > Len(kinds) THEN <<>>
    ELSE (IF kinds[i].rating = <<>> THEN <<>>
          ELSE <<[recipe_id |-> RecipeId(i), rating |-> kinds[i].rating[1]]>>)
         \o ReviewRows(kinds, i + 1)

KindSeqs == UNION {[1..n -> RecipeKinds] : n \in 0..NRecipes}

NoProfile ==
    [allergies |-> None, dietary_restrictions |-> None,
     disliked_ingredients |-> None, max_calories |-> None, min_protein |-> None,
     max_carbs |-> None, max_fat |-> None, max_prep_time |-> None]

AllergyProfile == [NoProfile EXCEPT !.allergies = Some(<<Nut>>)]

StrictProfile ==
    [NoProfile EXCEPT !.dietary_restrictions = Some(<<Vegan>>),
                      !.max_calories = Some(300),
                      !.max_prep_time = Some(20)]

\* user 1 has interactions (and so an index in the graph), user 2 has none
UserIds == {1, 2}

\* One request is followed per run, so only the requesting user's row of the
\* table is read: both users get the same stored profile, or none.
ProfileTables ==
    {[u \in UserIds |-> p] : p \in {None, Some(AllergyProfile), Some(StrictProfile)}}

Contexts ==
    { [available_ingredients |-> None, max_time |-> None, dietary_preferences |-> None],
      [available_ingredients |-> Some(<<egg, flour>>), max_time |-> None,
       dietary_preferences |-> None],
      [available_ingredients |-> Some(<<egg, flour>>), max_time |-> Some(20),
       dietary_preferences |-> None],
      [available_ingredients |-> Some(<<egg, flour, EggSp>>), max_time |-> None,
       dietary_preferences |-> None],
      [available_ingredients |-> None, max_time |-> Some(20), dietary_preferences |-> None],
      [available_ingredients |-> None, max_time |-> None,
       dietary_preferences |-> Some(<<Vegan>>)] }

Requests ==
    { [user_id |-> u, available_ingredients |-> c.available_ingredients,
       max_time |-> c.max_time, dietary_preferences |-> c.dietary_preferences,
       top_k |-> k, use_profile |-> up] :
        u \in UserIds, c \in Contexts, k \in 0..MaxTopK, up \in BOOLEAN }

-----------------------------------------------------------------------------
(* initialize_model *)

Globals == [model |-> model, graph_data |-> graph_data, recipe_data |-> recipe_data,
            reranker |-> reranker, mappings |-> mappings]

NoGlobals == [model |-> None, graph_data |-> None, recipe_data |-> None,
              reranker |-> None, mappings |-> None]

\* context_dim passed to ContextualReranker
ContextDim == 50

\* What one call finds on disk: which files exist, the step (if any) that
\* raises, the weights in the checkpoint, graph.embedding_dim of the config.
InitFileChoices ==
    { [mappings_ok |-> FALSE, graph_ok |-> TRUE, recipes_ok |-> TRUE,
       raise_at |-> "none", weights |-> "asc", embedding_dim |-> 128],
      [mappings_ok |-> TRUE, graph_ok |-> FALSE, recipes_ok |-> TRUE,
       raise_at |-> "none", weights |-> "asc", embedding_dim |-> 128],
      [mappings_ok |-> TRUE, graph_ok |-> TRUE, recipes_ok |-> FALSE,
       raise_at |-> "none", weights |-> "asc", embedding_dim |-> 128],
      [mappings_ok |-> TRUE, graph_ok |-> TRUE, recipes_ok |-> TRUE,
       raise_at |-> "reranker", weights |-> "asc", embedding_dim |-> 128],
      [mappings_ok |-> TRUE, graph_ok |-> TRUE, recipes_ok |-> TRUE,
       raise_at |-> "none", weights |-> "asc", embedding_dim |-> 128],
      [mappings_ok |-> TRUE, graph_ok |-> TRUE, recipes_ok |-> TRUE,
       raise_at |-> "none", weights |-> "asc", embedding_dim |-> 1],
      [mappings_ok |-> TRUE, graph_ok |-> TRUE, recipes_ok |-> TRUE,
       raise_at |-> "none", weights |-> "nan", embedding_dim |-> 1] }

\* mappings.pkl with a recipe index that is not one-to-one: every index
\* names the first recipe
LoadedMappingsNotInjective(gen, rows) ==
    [gen |-> gen,
     user_to_idx |-> IF rows = <<>> THEN <<>> ELSE <<0>>,
     idx_to_recipe |-> [i \in DOMAIN rows |-> rows[1].recipe_id]]

\* mappings.pkl as preprocessing writes it for the current tables
LoadedMappings(gen, rows) ==
    [gen |-> gen,
     user_to_idx |-> IF rows = <<>> THEN <<>> ELSE <<0>>,
     idx_to_recipe |-> [i \in DOMAIN rows |-> rows[i].recipe_id]]

\* the outer handler leaving the globals as the failed call set them
outer_except_keeps(g) == g

\* lines 263-271: the outer handler resets the five globals
outer_except(g) == NoGlobals

\* One step of initialize_model from position pc: the next position and the
\* globals after it.  Every step assigns one global (or mutates the object
\* one global refers to); an exception resets all five.
InitStep(pc, files, g, gen, rows) ==
    IF files.raise_at = pc THEN [pc |-> "idle", g |-> outer_except(g)]
    ELSE IF pc = "mappings" THEN
        IF ~files.mappings_ok THEN [pc |-> "idle", g |-> g]
        ELSE [pc |-> "graph",
              g |-> [g EXCEPT !.mappings = Some(LoadedMappings(gen, rows))]]
    ELSE IF pc = "graph" THEN
        IF ~files.graph_ok THEN [pc |-> "idle", g |-> g]
        ELSE [pc |-> "recipes", g |-> [g EXCEPT !.graph_data = Some([gen |-> gen])]]
    ELSE IF pc = "recipes" THEN
        IF ~files.recipes_ok THEN [pc |-> "idle", g |-> g]
        ELSE [pc |-> "model",
              g |-> [g EXCEPT !.recipe_data = Some([gen |-> gen, rows |-> rows])]]
    ELSE IF pc = "model" THEN
        [pc |-> "embed",
         g |-> [g EXCEPT !.model = Some([gen |-> gen, weights |-> "asc",
                                         initialised |-> FALSE, loaded |-> FALSE])]]
    ELSE IF pc = "embed" THEN
        [pc |-> "weights",
         g |-> [g EXCEPT !.model = Some([Val(g.model) EXCEPT !.initialised = TRUE])]]
    ELSE IF pc = "weights" THEN
        [pc |-> "reranker",
         g |-> [g EXCEPT !.model = Some([Val(g.model) EXCEPT
                                            !.weights = files.weights,
                                            !.loaded = TRUE])]]
    ELSE \* pc = "reranker"
        [pc |-> "idle",
         g |-> [g EXCEPT !.reranker = Some([gen |-> gen,
                                            input_dim |-> files.embedding_dim,
                                            context_dim |-> ContextDim,
                                            w_base |-> -1, w_overlap |-> 1])]]

RECURSIVE RunInit(_, _, _, _, _)
\* the whole call, from position pc
RunInit(pc, files, g, gen, rows) ==
    IF pc = "idle" THEN g
    ELSE LET st == InitStep(pc, files, g, gen, rows)
         IN  RunInit(st.pc, files, st.g, gen, rows)

NoFiles == CHOOSE f \in InitFileChoices : ~f.mappings_ok

\* What a running recommend call has read so far: the model object it holds,
\* the generations (initialize_model call numbers) of the globals it has read,
\* and whether it has read a model whose initialisation was not finished.
NoSeen == [model |-> None, gens |-> {}, unfinished |-> FALSE]

-----------------------------------------------------------------------------
(* The parts of the state a run does not use *)

\* no GraphBuilder call is followed
GraphIdle ==
    /\ gb_interactions = <<>>
    /\ gb_recipes = <<>>
    /\ gb_mappings = [user_to_idx |-> <<>>, recipe_to_idx |-> <<>>]
    /\ gb_built = None

\* no Evaluator call is followed
EvalIdle ==
    /\ ev_predictions = <<>>
    /\ ev_ground_truth = <<>>
    /\ ev_k = 1
    /\ ev_result = None

\* no Trainer is followed
TrainIdle ==
    /\ tr_config = [num_epochs |-> 0, early_stopping_patience |-> 1, save_path |-> FALSE]
    /\ tr_pc = "finished"
    /\ tr_epoch = 0
    /\ best_val_score = 0
    /\ patience_counter = 0
    /\ history = <<>>
    /\ best_model_pt = None

\* no InteractionDataset is followed
DatasetIdle ==
    /\ ds_interactions = <<>>
    /\ n_negatives = 0
    /\ ds_item = None

\* no DataPreprocessor call is followed
PrepIdle ==
    /\ pp_interactions = <<>>
    /\ pp_recipes = <<>>
    /\ min_user_interactions = 1
    /\ min_recipe_ratings = 1
    /\ pp_result = None

\* no call on the user_profiles table is followed
ProfileIdle ==
    /\ user_profiles = <<>>
    /\ utcnow = 0
    /\ db_last = None

\* no call of the fallback scorer on its own is followed
FallbackIdle ==
    /\ fb_request = None
    /\ fb_fault = "none"
    /\ fb_response = None

OfflineIdle ==
    /\ GraphIdle /\ EvalIdle /\ TrainIdle /\ DatasetIdle
    /\ PrepIdle /\ ProfileIdle /\ FallbackIdle

-----------------------------------------------------------------------------
(* Actions *)

\* initialize_model, called by the startup handler before requests are served
InitializeModel(files) ==
    /\ initCalls = 0
    /\ initPc = "idle"
    /\ request = None
    /\ LET g == RunInit("mappings", files, Globals, 1, recipes)
       IN  /\ model' = g.model
           /\ graph_data' = g.graph_data
           /\ recipe_data' = g.recipe_data
           /\ reranker' = g.reranker
           /\ mappings' = g.mappings
    /\ initCalls' = 1
    /\ UNCHANGED <<recipes, reviews, profiles, db_up, initPc, initFiles, recPc, recSeen,
                   request, response, df_in, prof_in, df_out,
                   response2,
                   offlineVars>>

\* POST /recommend.  A behaviour follows one request: recommend changes none
\* of the tables or globals, so the requests of a run are independent.
Recommend(req) ==
    /\ initPc = "idle"
    /\ recPc = "idle"
    /\ request = None
    /\ request' = Some(req)
    /\ response' = Some(recommend(req, model, graph_data, recipe_data, reranker,
                                  mappings, recipes, reviews,
                                  profiles[req.user_id], db_up))
    /\ UNCHANGED <<recipes, reviews, profiles, db_up, model, graph_data, recipe_data,
                   reranker, mappings, initCalls, initPc, initFiles, recPc,
                   recSeen, df_in, prof_in, df_out,
                   response2,
                   offlineVars>>

\* The same request sent again, nothing else having run in between
RecommendAgain ==
    /\ initPc = "idle"
    /\ recPc = "idle"
    /\ ~IsNone(request)
    /\ ~IsNone(response)
    /\ IsNone(response2)
    /\ response2' = Some(recommend(Val(request), model, graph_data, recipe_data,
                                   reranker, mappings, recipes, reviews,
                                   profiles[Val(request).user_id], db_up))
    /\ UNCHANGED <<recipes, reviews, profiles, db_up, model, graph_data, recipe_data,
                   reranker, mappings, initCalls, initPc, initFiles, recPc,
                   recSeen, request, response, df_in, prof_in, df_out,
                   offlineVars>>

Init ==
    /\ \E kinds \in KindSeqs :
         /\ recipes = RecipeRows(kinds)
         /\ reviews = ReviewRows(kinds, 1)
    /\ profiles \in ProfileTables
    /\ db_up \in BOOLEAN
    /\ response2 = None
    /\ model = None
    /\ graph_data = None
    /\ recipe_data = None
    /\ reranker = None
    /\ mappings = None
    /\ initCalls = 0
    /\ initPc = "idle"
    /\ initFiles = NoFiles
    /\ recPc = "idle"
    /\ recSeen = NoSeen
    /\ request = None
    /\ response = None
    /\ df_in = <<>>
    /\ prof_in = NoProfile
    /\ df_out = None
    /\ OfflineIdle

Next ==
    \/ \E files \in InitFileChoices : InitializeModel(files)
    \/ \E req \in Requests : Recommend(req)
    \/ RecommendAgain

Spec == Init /\ [][Next]_vars

-----------------------------------------------------------------------------
(* The constraint pipeline on its own *)

PipelineProfiles ==
    { NoProfile, AllergyProfile, StrictProfile,
      [NoProfile EXCEPT !.dietary_restrictions = Some(<<Vegan>>)],
      [NoProfile EXCEPT !.max_calories = Some(300)],
      [NoProfile EXCEPT !.min_protein = Some(10), !.max_fat = Some(0)],
      [NoProfile EXCEPT !.max_fat = Some(0)],
      [NoProfile EXCEPT !.disliked_ingredients = Some(<<flour>>)],
      [NoProfile EXCEPT !.max_prep_time = Some(20)],
      [AllergyProfile EXCEPT !.max_prep_time = Some(20)] }

InitPipeline ==
    /\ df_in \in {RecipeRows(kinds) : kinds \in KindSeqs}
    /\ prof_in \in PipelineProfiles
    /\ df_out = None
    /\ recipes = <<>>
    /\ reviews = <<>>
    /\ profiles = [u \in UserIds |-> None]
    /\ db_up = TRUE
    /\ response2 = None
    /\ model = None
    /\ graph_data = None
    /\ recipe_data = None
    /\ reranker = None
    /\ mappings = None
    /\ initCalls = 0
    /\ initPc = "idle"
    /\ initFiles = NoFiles
    /\ recPc = "idle"
    /\ recSeen = NoSeen
    /\ request = None
    /\ response = None
    /\ OfflineIdle

\* one call of apply_user_profile_filters
ApplyFilters ==
    /\ df_out = None
    /\ df_out' = Some(apply_user_profile_filters(df_in, prof_in))
    /\ UNCHANGED <<recipes, reviews, profiles, db_up, model, graph_data, recipe_data,
                   reranker, mappings, initCalls, initPc, initFiles, recPc,
                   recSeen, request, response, df_in, prof_in,
                   response2,
                   offlineVars>>

NextPipeline == ApplyFilters

SpecPipeline == InitPipeline /\ [][NextPipeline]_vars

-----------------------------------------------------------------------------
(* recommend running while initialize_model runs in another thread.  The   *)
(* application calls initialize_model from its startup handler only         *)
(* (src/src/api/main.py, startup_event); this part follows a caller that    *)
(* loads or reloads the bundle while requests are served.                   *)

SetGlobals(g) ==
    /\ model' = g.model
    /\ graph_data' = g.graph_data
    /\ recipe_data' = g.recipe_data
    /\ reranker' = g.reranker
    /\ mappings' = g.mappings

\* a call of initialize_model starts
InitCall(files) ==
    /\ initPc = "idle"
    /\ initCalls < MaxInitCalls
    /\ initCalls' = initCalls + 1
    /\ initPc' = "mappings"
    /\ initFiles' = files
    /\ UNCHANGED <<recipes, reviews, profiles, db_up, model, graph_data, recipe_data,
                   reranker, mappings, recPc, recSeen, request, response,
                   df_in, prof_in, df_out,
                   response2,
                   offlineVars>>

\* the running call executes its next assignment
InitAdvance ==
    /\ initPc # "idle"
    /\ LET st == InitStep(initPc, initFiles, Globals, initCalls, recipes)
       IN  /\ SetGlobals(st.g)
           /\ initPc' = st.pc
    /\ UNCHANGED <<recipes, reviews, profiles, db_up, initCalls, initFiles, recPc,
                   recSeen, request, response, df_in, prof_in, df_out,
                   response2,
                   offlineVars>>

GenOf(o) == IF IsNone(o) THEN {} ELSE {Val(o).gen}

Fallback(req) ==
    _get_fallback_recommendations(req, recipes, reviews, profiles[req.user_id], db_up)

\* line 553: the request arrives and tests the four globals
RecCheck(req) ==
    /\ recPc = "idle"
    /\ request = None
    /\ request' = Some(req)
    /\ IF IsNone(model) \/ IsNone(graph_data) \/ IsNone(recipe_data) \/ IsNone(mappings)
       THEN /\ response' = Some(Fallback(req))
            /\ recPc' = "done"
            /\ UNCHANGED recSeen
       ELSE /\ recPc' = "lookup"
            /\ recSeen' = [recSeen EXCEPT
                 !.gens = GenOf(model) \cup GenOf(graph_data)
                          \cup GenOf(recipe_data) \cup GenOf(mappings)]
            /\ UNCHANGED response
    /\ UNCHANGED <<recipes, reviews, profiles, db_up, model, graph_data, recipe_data,
                   reranker, mappings, initCalls, initPc, initFiles,
                   df_in, prof_in, df_out,
                   response2,
                   offlineVars>>

\* line 557: mappings["user_to_idx"].get(request.user_id)
RecLookup ==
    /\ recPc = "lookup"
    /\ recPc' = IF ~IsNone(mappings)
                   /\ Val(request).user_id \in DOMAIN Val(mappings).user_to_idx
                THEN "forward" ELSE "done"
    /\ response' = IF IsNone(mappings) THEN Some(HTTPException)
                   ELSE IF Val(request).user_id \in DOMAIN Val(mappings).user_to_idx
                   THEN response
                   ELSE Some(Fallback(Val(request)))
    /\ recSeen' = [recSeen EXCEPT !.gens = @ \cup GenOf(mappings)]
    /\ UNCHANGED <<recipes, reviews, profiles, db_up, model, graph_data, recipe_data,
                   reranker, mappings, initCalls, initPc, initFiles, request,
                   df_in, prof_in, df_out,
                   response2,
                   offlineVars>>

\* lines 565-579: the forward pass on model and graph_data
RecForward ==
    /\ recPc = "forward"
    /\ IF IsNone(model) \/ IsNone(graph_data)
       THEN /\ recPc' = "done"
            /\ response' = Some(HTTPException)
            /\ UNCHANGED recSeen
       ELSE /\ recPc' = "rank"
            /\ recSeen' = [recSeen EXCEPT
                 !.model = model,
                 !.gens = @ \cup GenOf(model) \cup GenOf(graph_data),
                 !.unfinished = ~Val(model).loaded]
            /\ UNCHANGED response
    /\ UNCHANGED <<recipes, reviews, profiles, db_up, model, graph_data, recipe_data,
                   reranker, mappings, initCalls, initPc, initFiles, request,
                   df_in, prof_in, df_out,
                   response2,
                   offlineVars>>

\* lines 581-714: ranking, profile filter and explanations
RecRank ==
    /\ recPc = "rank"
    /\ recPc' = "done"
    /\ response' =
         IF IsNone(mappings) \/ IsNone(recipe_data) THEN Some(HTTPException)
         ELSE Some(ModelPath(Val(request), Val(recSeen.model), reranker,
                             Val(mappings), Val(recipe_data),
                             profiles[Val(request).user_id],
                             Fallback(Val(request))))
    /\ recSeen' = [recSeen EXCEPT
         !.gens = @ \cup GenOf(reranker) \cup GenOf(mappings) \cup GenOf(recipe_data)]
    /\ UNCHANGED <<recipes, reviews, profiles, db_up, model, graph_data, recipe_data,
                   reranker, mappings, initCalls, initPc, initFiles, request,
                   df_in, prof_in, df_out,
                   response2,
                   offlineVars>>

ConcRequests ==
    {r \in Requests : r.user_id = 1 /\ r.top_k = 1 /\ ~r.use_profile
                      /\ IsNone(r.max_time)}

InitConc ==
    /\ \E kinds \in [1..2 -> RecipeKinds] :
         /\ kinds[1].ingredients_list = Some(<<egg, flour>>)
         /\ kinds[2].calories = Some(500)
         /\ recipes = RecipeRows(kinds)
         /\ reviews = ReviewRows(kinds, 1)
    /\ profiles = [u \in UserIds |-> None]
    /\ db_up = TRUE
    /\ response2 = None
    /\ model = None
    /\ graph_data = None
    /\ recipe_data = None
    /\ reranker = None
    /\ mappings = None
    /\ initCalls = 0
    /\ initPc = "idle"
    /\ initFiles = NoFiles
    /\ recPc = "idle"
    /\ recSeen = NoSeen
    /\ request = None
    /\ response = None
    /\ df_in = <<>>
    /\ prof_in = NoProfile
    /\ df_out = None
    /\ OfflineIdle

NextConc ==
    \/ \E files \in InitFileChoices : InitCall(files)
    \/ InitAdvance
    \/ \E req \in ConcRequests : RecCheck(req)
    \/ RecLookup
    \/ RecForward
    \/ RecRank

SpecConc == InitConc /\ [][NextConc]_vars

-----------------------------------------------------------------------------
(* Properties of recommend *)

\* a request was handled and answered
Answered == ~IsNone(request) /\ ~IsNone(response)

Req == Val(request)

Resp == Val(response)

\* the stored profile of the requesting user
ReqProfile == profiles[Req.user_id]

\* the Recipe row with this id has an ingredient that contains one of the
\* allergens, compared case-insensitively
ContainsAllergen(recipe_id, allergies) ==
    \E i \in DOMAIN recipes :
        /\ recipes[i].recipe_id = recipe_id
        /\ ~IsNone(recipes[i].ingredients_list)
        /\ \E k \in DOMAIN Val(recipes[i].ingredients_list), a \in DOMAIN allergies :
              Contains(Lower(allergies[a]), Lower(Val(recipes[i].ingredients_list)[k]))

\* C1: a response built with use_profile for a user whose profile has a
\* non-empty allergy list returns no recipe with an ingredient that contains
\* an allergen, on the model path and on the fallback path.
C1_AllergySafety ==
    (/\ Answered
     /\ Req.use_profile
     /\ ~IsNone(ReqProfile)
     /\ TruthyList(Val(ReqProfile).allergies))
    => \A i \in DOMAIN Resp.recipe_ids :
          ~ContainsAllergen(Resp.recipe_ids[i], Val(Val(ReqProfile).allergies))

\* C2: for top_k >= 1 the three lists of a response have the same length,
\* and that length is at most top_k, whatever produced the response.
C2_EqualLengths ==
    (Answered /\ Req.top_k >= 1 /\ Resp.status = "ok")
    => /\ Len(Resp.recipe_ids) = Len(Resp.scores)
       /\ Len(Resp.scores) = Len(Resp.explanations)
       /\ Len(Resp.recipe_ids) <= Req.top_k

\* C3: no response contains the same recipe id twice.
C3_NoDuplicateIds ==
    Answered =>
      \A i, j \in DOMAIN Resp.recipe_ids :
          i # j => Resp.recipe_ids[i] # Resp.recipe_ids[j]

\* C3 witness: a re-ranked, allergy-filtered model-path response of two recipes
C3_Witness ==
    /\ Answered
    /\ Resp.path = "model_reranked"
    /\ Len(Resp.recipe_ids) = 2
    /\ Req.use_profile
    /\ ~IsNone(ReqProfile)
    /\ TruthyList(Val(ReqProfile).allergies)

\* line 553: one of the four globals recommend tests is None
BundleAbsent ==
    IsNone(model) \/ IsNone(graph_data) \/ IsNone(recipe_data) \/ IsNone(mappings)

\* line 557: the requested user id has no index in the graph
ColdStart == ~BundleAbsent /\ Req.user_id \notin DOMAIN Val(mappings).user_to_idx

\* what ModelPath returns in place of the fallback's response, to tell that
\* it asked for it
Asked == [HTTPException EXCEPT !.status = "asked_fallback"]

\* line 705: the model path ran without exception and is left with no recipe
ZeroCandidates ==
    /\ ~BundleAbsent
    /\ ~ColdStart
    /\ ModelPath(Req, Val(model), reranker, Val(mappings), Val(recipe_data),
                 ReqProfile, Asked) = Asked

\* C4: with a global absent, a cold-start user or zero candidates on the
\* model path, recommend raises nothing and returns what the fallback scorer
\* returns for the request.
C4_FallbackTriggers ==
    (Answered /\ (BundleAbsent \/ ColdStart \/ ZeroCandidates))
    => /\ Resp.status = "ok"
       /\ Resp.path = "fallback"
       /\ Resp = _get_fallback_recommendations(Req, recipes, reviews,
                                               ReqProfile, db_up)

\* C4 witness: zero candidates on the model path, answered by the fallback
C4_Witness ==
    /\ Answered
    /\ ZeroCandidates
    /\ HasContext(Req)
    /\ Resp.path = "fallback"

\* the re-ranker is loaded and its forward pass raises on any input
RerankerFails ==
    /\ ~BundleAbsent
    /\ ~ColdStart
    /\ ~IsNone(reranker)
    /\ forward_raises(Val(reranker))

\* C5: a request with context whose re-ranking fails is still answered, with
\* the response the base order alone gives (the one computed without a
\* re-ranker).
C5_RerankFailureFallsBack ==
    (Answered /\ HasContext(Req) /\ RerankerFails /\ Len(recipes) >= 2)
    => /\ Resp.status = "ok"
       /\ Resp = recommend(Req, model, graph_data, recipe_data, None, mappings,
                           recipes, reviews, ReqProfile, db_up)

C7_ScoresFinite ==
    Answered =>
      \A i \in DOMAIN Resp.scores :
          /\ ~IsNaN(Resp.scores[i])
          /\ Resp.path = "fallback" =>
                (RLe(Rat(0, 1), Resp.scores[i]) /\ RLe(Resp.scores[i], Rat(1, 1)))

\* C8: the constraint pipeline returns a non-empty frame for a non-empty input.
C8_PipelineNeverEmpty ==
    (df_in # <<>> /\ ~IsNone(df_out)) => Val(df_out) # <<>>

MatchOf(recipe_id) ==
    LET row == CHOOSE r \in Range(recipes) : r.recipe_id = recipe_id
    IN  calculate_ingredient_match(row.ingredients_list,
          IF TruthyList(Req.available_ingredients)
          THEN available_ings(Val(Req.available_ingredients))
          ELSE {})

\* a fallback response that lists recipes
FallbackAnswer ==
    Answered /\ Resp.path = "fallback" /\ Resp.recipe_ids # <<>>

RawOf(recipe_id) == raw_score(recipe_id, recipe_scores(reviews))

\* position i of the response lists a recipe whose ingredients are all
\* available, position j one that uses as many but has more ingredients,
\* and both have the same mean rating
FullBeatsPartialCase(i, j) ==
    /\ MatchOf(Resp.recipe_ids[i]).matched = MatchOf(Resp.recipe_ids[i]).total
    /\ MatchOf(Resp.recipe_ids[i]).total > 0
    /\ MatchOf(Resp.recipe_ids[j]).matched = MatchOf(Resp.recipe_ids[i]).matched
    /\ MatchOf(Resp.recipe_ids[j]).matched < MatchOf(Resp.recipe_ids[j]).total
    /\ RawOf(Resp.recipe_ids[i]) = RawOf(Resp.recipe_ids[j])

\* C11: in one fallback response, a recipe whose ingredients are all
\* available scores strictly higher than one that uses the same number of
\* available ingredients, has the same popularity and is only partly covered.
C11_FullBeatsPartial ==
    (FallbackAnswer /\ TruthyList(Req.available_ingredients))
    => \A i, j \in DOMAIN Resp.recipe_ids :
          FullBeatsPartialCase(i, j) => RLt(Resp.scores[j], Resp.scores[i])

\* C11 witness: both recipes returned, the full match clamped to 1
C11_Witness ==
    /\ FallbackAnswer
    /\ TruthyList(Req.available_ingredients)
    /\ \E i, j \in DOMAIN Resp.recipe_ids :
          /\ FullBeatsPartialCase(i, j)
          /\ Resp.scores[i].n = Resp.scores[i].d

\* the profile sets nutrition bounds only, so that the pipeline is its
\* nutrition stage
OnlyNutrition(p) ==
    /\ IsNone(p.allergies)
    /\ IsNone(p.dietary_restrictions)
    /\ IsNone(p.disliked_ingredients)
    /\ IsNone(p.max_prep_time)

\* the row is within every bound the profile holds; a missing value passes
WithinBounds(r, p) ==
    /\ IsNone(p.max_calories) \/ PassMax(r.calories, Val(p.max_calories))
    /\ IsNone(p.min_protein) \/ PassMin(r.protein, Val(p.min_protein))
    /\ IsNone(p.max_carbs) \/ PassMax(r.carbohydrates, Val(p.max_carbs))
    /\ IsNone(p.max_fat) \/ PassMax(r.total_fat, Val(p.max_fat))

\* C12: the nutrition stage keeps exactly the recipes that are within every
\* bound present in the profile, a bound of 0 included; a missing value
\* passes its bound.
C12_NutritionExact ==
    (~IsNone(df_out) /\ OnlyNutrition(prof_in))
    => Val(df_out) = SelectRows(df_in, {r \in Range(df_in) : WithinBounds(r, prof_in)})

\* the answer the request r gets from the tables and the bundle as they are
AnswerTo(r) ==
    recommend(r, model, graph_data, recipe_data, reranker, mappings, recipes,
              reviews, profiles[r.user_id], db_up)

\* r differs from the sent request in its ingredient list only, and the two
\* lists normalise to the same set of tokens
SameTokens(r) ==
    /\ TruthyList(Req.available_ingredients)
    /\ TruthyList(r.available_ingredients)
    /\ r.available_ingredients # Req.available_ingredients
    /\ r = [Req EXCEPT !.available_ingredients = r.available_ingredients]
    /\ available_ings(Val(r.available_ingredients))
         = available_ings(Val(Req.available_ingredients))

\* C13: two fallback requests whose ingredient lists normalise to the same
\* set of tokens get the same candidates and the same scores.
C13_NormalisedListsSameAnswer ==
    FallbackAnswer =>
      \A r \in Requests :
          SameTokens(r) =>
            /\ AnswerTo(r).recipe_ids = Resp.recipe_ids
            /\ \A i \in DOMAIN Resp.scores :
                  /\ RLe(AnswerTo(r).scores[i], Resp.scores[i])
                  /\ RLe(Resp.scores[i], AnswerTo(r).scores[i])

\* the candidate frame of the fallback path: the rows left by the profile
\* stage, the ingredient filter and the max_time filter
Candidates ==
    CandidateStage(ProfileStage(recipes, Req, profiles[Req.user_id]), Req)

\* the largest mean rating among the candidates, 5 when none is positive
PopularityDivisorOf(raws) ==
    IF \E x \in raws : x.n > 0 THEN RMax(raws) ELSE Rat(5, 1)

PopularityDivisor ==
    PopularityDivisorOf({RawOf(r.recipe_id) : r \in Range(Candidates)})

\* 0.65 * used / available + 0.25 * used / recipe_total + 0.10 * popularity
\* + 0.20 when used = recipe_total > 0, before the clamp
WeightedSum(used, total, available, pop) ==
    Rat(65 * used * total * pop.d + 25 * used * available * pop.d
        + 10 * pop.n * available * total
        + (IF used = total /\ total > 0 THEN 20 ELSE 0) * available * total * pop.d,
        100 * available * total * pop.d)

Clamp(x) == IF x.n > x.d THEN Rat(1, 1) ELSE IF x.n < 0 THEN Rat(0, 1) ELSE x

REq(x, y) == RLe(x, y) /\ RLe(y, x)

\* the score the formula gives a recipe of mean rating raw with the match m
FormulaScore(raw, m, divisor) ==
    IF TruthyList(Req.available_ingredients)
    THEN Clamp(WeightedSum(m.matched, m.total, Len(Val(Req.available_ingredients)),
                           Rat(raw.n * divisor.d, raw.d * divisor.n)))
    ELSE Rat(raw.n * divisor.d, raw.d * divisor.n)

AllScoresFollow(divisor) ==
    \A i \in DOMAIN Resp.recipe_ids :
        REq(Resp.scores[i],
            FormulaScore(RawOf(Resp.recipe_ids[i]), MatchOf(Resp.recipe_ids[i]), divisor))

\* C20: on the fallback path each returned score is the clamp to [0, 1] of
\* 0.65 * used / number of available ingredients + 0.25 * used / recipe_total
\* + 0.10 * popularity + 0.20 when used = recipe_total > 0, popularity being
\* the recipe's mean rating over the largest mean rating of the candidates
\* (over 5.0 when none is positive); without ingredients the score is the
\* popularity alone.
C20_ScoreFormula ==
    FallbackAnswer => AllScoresFollow(PopularityDivisor)

\* C20 witness: a recipe using 2 of its 4 ingredients, both of the 2 supplied,
\* rated 4 as the best of the candidates: 0.65 + 0.125 + 0.10 = 0.875
C20_Witness ==
    /\ FallbackAnswer
    /\ TruthyList(Req.available_ingredients)
    /\ Len(Val(Req.available_ingredients)) = 2
    /\ \E i \in DOMAIN Resp.recipe_ids :
          /\ MatchOf(Resp.recipe_ids[i]).matched = 2
          /\ MatchOf(Resp.recipe_ids[i]).total = 4
          /\ PopularityDivisor = Rat(4, 1)
          /\ REq(Resp.scores[i], Rat(875, 1000))

-----------------------------------------------------------------------------
(* GraphBuilder (src/src/data/graph_builder.py).  A 2 x E edge_index tensor *)
(* is the pair of its two rows; a randn feature matrix is its row count.    *)

\* Largest number of users in the id mappings.
MaxUsers == 2

\* Largest number of rows in the interactions frame.
MaxInteractions == 2

\* GraphBuilder.__init__: embedding_dim
embedding_dim == 128

\* order of two lower-cased, trimmed strings as sorted() compares them
CharRank(c) == IF c = " " THEN 0 ELSE CHOOSE i \in 1..26 : LowerChars[i] = c

RECURSIVE StrLt(_, _)
StrLt(a, b) ==
    IF b = <<>> THEN FALSE
    ELSE IF a = <<>> THEN TRUE
    ELSE IF Head(a) = Head(b) THEN StrLt(Tail(a), Tail(b))
    ELSE CharRank(Head(a)) < CharRank(Head(b))

\* len(mappings["user_to_idx"]), len(mappings["recipe_to_idx"])
n_users_of(mp) == Cardinality(DOMAIN mp.user_to_idx)

n_recipes_of(mp) == Cardinality(DOMAIN mp.recipe_to_idx)

\* build_user_recipe_graph with the recipe indices left as they are
build_user_recipe_graph_no_offset(interactions, mp) ==
    [edge_index |->
        << [i \in DOMAIN interactions |-> interactions[i].user_idx],
           [i \in DOMAIN interactions |-> interactions[i].recipe_idx] >>,
     edge_attr |->
        [i \in DOMAIN interactions |->
            IF IsNone(interactions[i].rating) THEN 3 ELSE Val(interactions[i].rating)]]

\* build_user_recipe_graph: users -> recipes, recipe indices offset by n_users;
\* a missing rating is filled with 3.0
build_user_recipe_graph(interactions, mp) ==
    [edge_index |->
        << [i \in DOMAIN interactions |-> interactions[i].user_idx],
           [i \in DOMAIN interactions |-> interactions[i].recipe_idx + n_users_of(mp)] >>,
     edge_attr |->
        [i \in DOMAIN interactions |->
            IF IsNone(interactions[i].rating) THEN 3 ELSE Val(interactions[i].rating)]]

\* the normalised ingredients of all rows whose ingredients_list is a list
all_ingredients(recipes_df) ==
    UNION { {Strip(Lower(ing)) : ing \in Range(Val(r.ingredients_list))} :
              r \in {x \in Range(recipes_df) : ~IsNone(x.ingredients_list)} }

\* {ing: idx for idx, ing in enumerate(sorted(all_ingredients))}
ingredient_to_idx_of(recipes_df) ==
    [ing \in all_ingredients(recipes_df) |->
        Cardinality({o \in all_ingredients(recipes_df) : StrLt(o, ing)})]

\* the edges of one row, one per entry of its ingredients_list
RowEdges(row, ing_idx, recipe_offset, ingredient_offset) ==
    IF IsNone(row.ingredients_list) THEN <<>>
    ELSE [k \in DOMAIN Val(row.ingredients_list) |->
            << row.recipe_idx + recipe_offset,
               ing_idx[Strip(Lower(Val(row.ingredients_list)[k]))] + ingredient_offset >>]

RECURSIVE AllRowEdges(_, _, _, _)
AllRowEdges(recipes_df, ing_idx, recipe_offset, ingredient_offset) ==
    IF recipes_df = <<>> THEN <<>>
    ELSE RowEdges(Head(recipes_df), ing_idx, recipe_offset, ingredient_offset)
         \o AllRowEdges(Tail(recipes_df), ing_idx, recipe_offset, ingredient_offset)

EdgeRows(edges) ==
    << [i \in DOMAIN edges |-> edges[i][1]], [i \in DOMAIN edges |-> edges[i][2]] >>

\* build_recipe_ingredient_graph: recipes -> ingredients, recipe indices
\* offset by n_users, ingredient indices by n_users + n_recipes
build_recipe_ingredient_graph(recipes_df, mp) ==
    [edge_index |->
        EdgeRows(AllRowEdges(recipes_df, ingredient_to_idx_of(recipes_df),
                             n_users_of(mp), n_users_of(mp) + n_recipes_of(mp))),
     ingredient_to_idx |-> ingredient_to_idx_of(recipes_df)]

\* build_hetero_graph
build_hetero_graph(interactions, recipes_df, mp, include_ingredients) ==
    [user_x |-> [rows |-> n_users_of(mp), dim |-> embedding_dim],
     recipe_x |-> [rows |-> n_recipes_of(mp), dim |-> embedding_dim],
     interacts_with |-> build_user_recipe_graph(interactions, mp),
     ingredient_x |->
        IF include_ingredients
        THEN Some([rows |-> Cardinality(all_ingredients(recipes_df)), dim |-> embedding_dim])
        ELSE None,
     contains |->
        IF include_ingredients
        THEN Some(build_recipe_ingredient_graph(recipes_df, mp).edge_index)
        ELSE None,
     ingredient_to_idx |->
        IF include_ingredients
        THEN Some(build_recipe_ingredient_graph(recipes_df, mp).ingredient_to_idx)
        ELSE None,
     mappings |-> mp,
     n_users |-> n_users_of(mp),
     n_recipes |-> n_recipes_of(mp)]

\* The frames db_to_processed.py hands to GraphBuilder: the mappings number
\* the users and the recipes 0, 1, ...; every row left after dropna carries
\* an index of the mappings; the recipes frame has one row per mapped recipe.
GraphMappings ==
    { [user_to_idx |-> [u \in 1..nu |-> u - 1],
       recipe_to_idx |-> [r \in {RecipeId(i) : i \in 1..nr} |-> r - RecipeId(1)]] :
        nu \in 0..MaxUsers, nr \in 0..NRecipes }

InteractionRows(mp) ==
    [user_idx : Range(mp.user_to_idx), recipe_idx : Range(mp.recipe_to_idx),
     rating : {None, Some(4)}]

\* at most one row per (user, recipe) pair, rows in the order of the pairs
GraphInteractions(mp) ==
    {s \in UNION {[1..n -> InteractionRows(mp)] : n \in 0..MaxInteractions} :
        \A i, j \in DOMAIN s :
            i < j => \/ s[i].user_idx < s[j].user_idx
                     \/ /\ s[i].user_idx = s[j].user_idx
                        /\ s[i].recipe_idx < s[j].recipe_idx}

GraphIngredientLists == {None, Some(<<egg>>), Some(<<EggSp, flour>>)}

GraphRecipes(mp) ==
    { [i \in 1..n_recipes_of(mp) |->
          [recipe_idx |-> i - 1, ingredients_list |-> lists[i]]] :
        lists \in [1..n_recipes_of(mp) -> GraphIngredientLists] }

\* the /recommend handler is not running
ServingIdle ==
    /\ recipes = <<>>
    /\ reviews = <<>>
    /\ profiles = [u \in UserIds |-> None]
    /\ db_up = TRUE
    /\ model = None
    /\ graph_data = None
    /\ recipe_data = None
    /\ reranker = None
    /\ mappings = None
    /\ initCalls = 0
    /\ initPc = "idle"
    /\ initFiles = NoFiles
    /\ recPc = "idle"
    /\ recSeen = NoSeen
    /\ request = None
    /\ response = None
    /\ response2 = None
    /\ df_in = <<>>
    /\ prof_in = NoProfile
    /\ df_out = None

InitGraph ==
    /\ gb_mappings \in GraphMappings
    /\ gb_interactions \in GraphInteractions(gb_mappings)
    /\ gb_recipes \in GraphRecipes(gb_mappings)
    /\ gb_built = None
    /\ ServingIdle
    /\ PrepIdle
    /\ ProfileIdle
    /\ FallbackIdle
    /\ EvalIdle
    /\ TrainIdle
    /\ DatasetIdle

BuildUserRecipeGraph ==
    /\ gb_built = None
    /\ gb_built' = Some([call |-> "build_user_recipe_graph",
                         result |-> build_user_recipe_graph(gb_interactions, gb_mappings)])
    /\ UNCHANGED <<servingVars, prepVars, profileVars, fallbackVars,
                   gb_interactions, gb_recipes, gb_mappings, evalVars,
                   trainVars, datasetVars>>

BuildRecipeIngredientGraph ==
    /\ gb_built = None
    /\ gb_built' = Some([call |-> "build_recipe_ingredient_graph",
                         result |-> build_recipe_ingredient_graph(gb_recipes, gb_mappings)])
    /\ UNCHANGED <<servingVars, prepVars, profileVars, fallbackVars,
                   gb_interactions, gb_recipes, gb_mappings, evalVars,
                   trainVars, datasetVars>>

BuildHeteroGraph(include_ingredients) ==
    /\ gb_built = None
    /\ gb_built' = Some([call |-> "build_hetero_graph",
                         result |-> build_hetero_graph(gb_interactions, gb_recipes,
                                                       gb_mappings, include_ingredients)])
    /\ UNCHANGED <<servingVars, prepVars, profileVars, fallbackVars,
                   gb_interactions, gb_recipes, gb_mappings, evalVars,
                   trainVars, datasetVars>>

NextGraph ==
    \/ BuildUserRecipeGraph
    \/ BuildRecipeIngredientGraph
    \/ \E include_ingredients \in BOOLEAN : BuildHeteroGraph(include_ingredients)

SpecGraph == InitGraph /\ [][NextGraph]_vars

-----------------------------------------------------------------------------
(* Properties of GraphBuilder *)

Built == Val(gb_built).result

\* the user -> recipe edge rows of the last call, if it built any
InteractsEdges ==
    IF gb_built = None \/ Val(gb_built).call = "build_recipe_ingredient_graph"
    THEN <<<<>>, <<>>>>
    ELSE IF Val(gb_built).call = "build_user_recipe_graph" THEN Built.edge_index
    ELSE Built.interacts_with.edge_index

\* the recipe -> ingredient edge rows of the last call, if it built any
ContainsEdges ==
    IF gb_built = None \/ Val(gb_built).call = "build_user_recipe_graph"
    THEN <<<<>>, <<>>>>
    ELSE IF Val(gb_built).call = "build_recipe_ingredient_graph" THEN Built.edge_index
    ELSE IF IsNone(Built.contains) THEN <<<<>>, <<>>>>
    ELSE Val(Built.contains)

NUsers == n_users_of(gb_mappings)

NRecipesMapped == n_recipes_of(gb_mappings)

NIngredients == Cardinality(all_ingredients(gb_recipes))

\* C14: user endpoints lie in [0, n_users), recipe endpoints in
\* [n_users, n_users + n_recipes), ingredient endpoints in
\* [n_users + n_recipes, n_users + n_recipes + n_ingredients): three disjoint
\* ranges of one index space.
C14_FlatDisjointRanges ==
    /\ \A u \in Range(InteractsEdges[1]) : 0 <= u /\ u < NUsers
    /\ \A r \in Range(InteractsEdges[2]) \cup Range(ContainsEdges[1]) :
          NUsers <= r /\ r < NUsers + NRecipesMapped
    /\ \A g \in Range(ContainsEdges[2]) :
          /\ NUsers + NRecipesMapped <= g
          /\ g < NUsers + NRecipesMapped + NIngredients

\* C14 witness: a heterogeneous graph of 2 users, 2 recipes and 2 ingredients
\* with edges of both kinds
C14_Witness ==
    /\ gb_built # None
    /\ Val(gb_built).call = "build_hetero_graph"
    /\ NUsers = 2 /\ NRecipesMapped = 2 /\ NIngredients = 2
    /\ InteractsEdges[1] # <<>>
    /\ Len(ContainsEdges[1]) >= 3

\* C15: in the graph build_hetero_graph returns, every endpoint of a typed
\* edge set is a row index of its own node type's feature matrix: users in
\* [0, n_users), recipes in [0, n_recipes), ingredients in [0, n_ingredients).
C15_TypedEndpointsZeroBased ==
    (gb_built # None /\ Val(gb_built).call = "build_hetero_graph") =>
        /\ \A u \in Range(InteractsEdges[1]) : 0 <= u /\ u < Built.user_x.rows
        /\ \A r \in Range(InteractsEdges[2]) \cup Range(ContainsEdges[1]) :
              0 <= r /\ r < Built.recipe_x.rows
        /\ ~IsNone(Built.ingredient_x) =>
              \A g \in Range(ContainsEdges[2]) :
                  0 <= g /\ g < Val(Built.ingredient_x).rows

-----------------------------------------------------------------------------
(* Evaluator (src/src/training/evaluation.py).  1 / log2 is a table of      *)
(* thousandths, so a DCG is an exact rational.                              *)

\* Largest number of items in the prediction and ground-truth arrays.
MaxItems == 3

\* Largest k a metric is asked for.
MaxEvalK == 2

\* Largest relevance (rating) in a ground-truth array.
MaxRelevance == 2

RDiv(x, y) == Rat(x.n * y.d, x.d * y.n)

\* 1000 / log2(i + 1) for the positions i = 1, 2, ...: one over the
\* discounts np.log2(np.arange(n) + 2)
DiscountMilli == <<1000, 631, 500, 431, 387, 356, 333>>

\* np.sum(gains / discounts) in thousandths, gains = 2 ** scores - 1
RECURSIVE DcgFrom(_, _)
DcgFrom(scores, i) ==
    IF i > Len(scores) THEN 0
    ELSE (2 ^ scores[i] - 1) * DiscountMilli[i] + DcgFrom(scores, i + 1)

\* Evaluator.dcg
dcg(scores) == IF Len(scores) = 0 THEN Rat(0, 1) ELSE Rat(DcgFrom(scores, 1), 1000)

\* np.sort(a)[::-1]
RECURSIVE SortDesc(_)
SortDesc(a) ==
    IF a = <<>> THEN <<>>
    ELSE LET i == CHOOSE j \in DOMAIN a : \A m \in DOMAIN a : a[m] <= a[j]
         IN  <<a[i]>> \o SortDesc(SubSeq(a, 1, i - 1) \o SubSeq(a, i + 1, Len(a)))

\* np.argsort(predictions)[::-1][:k]
top_k_indices(predictions, k) ==
    Prefix(ArgsortDesc(predictions, DOMAIN predictions), k)

\* ground_truth[indices]
Take(ground_truth, indices) == [p \in DOMAIN indices |-> ground_truth[indices[p]]]

\* Evaluator.ndcg_at_k
ndcg_at_k(predictions, ground_truth, k) ==
    IF dcg(Prefix(SortDesc(ground_truth), k)).n = 0 THEN Rat(0, 1)
    ELSE RDiv(dcg(Take(ground_truth, top_k_indices(predictions, k))),
              dcg(Prefix(SortDesc(ground_truth), k)))

\* Evaluator.recall_at_k
recall_at_k(predictions, ground_truth, k) ==
    IF \A i \in DOMAIN ground_truth : ~(ground_truth[i] > 0) THEN Rat(0, 1)
    ELSE Rat(Cardinality({p \in DOMAIN top_k_indices(predictions, k) :
                            ground_truth[top_k_indices(predictions, k)[p]] > 0}),
             Cardinality({i \in DOMAIN ground_truth : ground_truth[i] > 0}))

\* the ranks (from 1) at which a relevant item stands
RelevantRanks(predictions, ground_truth) ==
    {rank \in DOMAIN predictions :
        ground_truth[ArgsortDesc(predictions, DOMAIN predictions)[rank]] > 0}

\* mrr with the ranks counted from 2
mrr_ranks_from_two(predictions, ground_truth) ==
    IF RelevantRanks(predictions, ground_truth) = {} THEN Rat(0, 1)
    ELSE Rat(1, 1 + CHOOSE rank \in RelevantRanks(predictions, ground_truth) :
                    \A o \in RelevantRanks(predictions, ground_truth) : rank <= o)

\* Evaluator.mrr
mrr(predictions, ground_truth) ==
    IF RelevantRanks(predictions, ground_truth) = {} THEN Rat(0, 1)
    ELSE Rat(1, CHOOSE rank \in RelevantRanks(predictions, ground_truth) :
                    \A o \in RelevantRanks(predictions, ground_truth) : rank <= o)

\* predicted scores: dot products, NaN when a weight is NaN
PredictionValues == {Rat(0, 1), Rat(1, 1), NaN}

InitEval ==
    /\ \E n \in 0..MaxItems :
          /\ ev_predictions \in [1..n -> PredictionValues]
          /\ ev_ground_truth \in [1..n -> 0..MaxRelevance]
    /\ ev_k \in 1..MaxEvalK
    /\ ev_result = None
    /\ ServingIdle
    /\ PrepIdle
    /\ ProfileIdle
    /\ FallbackIdle
    /\ GraphIdle
    /\ TrainIdle
    /\ DatasetIdle

NdcgAtK ==
    /\ ev_result = None
    /\ ev_result' = Some([metric |-> "ndcg_at_k",
                          value |-> ndcg_at_k(ev_predictions, ev_ground_truth, ev_k)])
    /\ UNCHANGED <<servingVars, prepVars, profileVars, fallbackVars,
                   graphVars, ev_predictions, ev_ground_truth, ev_k,
                   trainVars, datasetVars>>

RecallAtK ==
    /\ ev_result = None
    /\ ev_result' = Some([metric |-> "recall_at_k",
                          value |-> recall_at_k(ev_predictions, ev_ground_truth, ev_k)])
    /\ UNCHANGED <<servingVars, prepVars, profileVars, fallbackVars,
                   graphVars, ev_predictions, ev_ground_truth, ev_k,
                   trainVars, datasetVars>>

Mrr ==
    /\ ev_result = None
    /\ ev_result' = Some([metric |-> "mrr",
                          value |-> mrr(ev_predictions, ev_ground_truth)])
    /\ UNCHANGED <<servingVars, prepVars, profileVars, fallbackVars,
                   graphVars, ev_predictions, ev_ground_truth, ev_k,
                   trainVars, datasetVars>>

NextEval == NdcgAtK \/ RecallAtK \/ Mrr

SpecEval == InitEval /\ [][NextEval]_vars

-----------------------------------------------------------------------------
(* Properties of Evaluator *)

Relevant == {i \in DOMAIN ev_ground_truth : ev_ground_truth[i] > 0}

\* one relevant item, and its predicted score is above every other score
SingleRelevantOnTop ==
    /\ Cardinality(Relevant) = 1
    /\ \A i \in Relevant :
          /\ ~IsNaN(ev_predictions[i])
          /\ \A j \in DOMAIN ev_predictions \ {i} :
                ~IsNaN(ev_predictions[j]) /\ RLt(ev_predictions[j], ev_predictions[i])

\* C16: for every k >= 1, each metric is exactly 1.0 when the single relevant
\* item has the strictly highest predicted score, and exactly 0.0 when no
\* item is relevant.
C16_MetricsOneAndZero ==
    ev_result # None =>
        /\ SingleRelevantOnTop
              => (Val(ev_result).value.d > 0
                  /\ Val(ev_result).value.n = Val(ev_result).value.d)
        /\ Relevant = {}
              => (Val(ev_result).value.d > 0 /\ Val(ev_result).value.n = 0)

\* C16 witness: the mean reciprocal rank of three items whose last one is the
\* single relevant item and scores highest
C16_Witness ==
    /\ ev_result # None
    /\ Val(ev_result).metric = "mrr"
    /\ Len(ev_predictions) = 3
    /\ Relevant = {3}
    /\ SingleRelevantOnTop
    /\ Val(ev_result).value = Rat(1, 1)

-----------------------------------------------------------------------------
(* Trainer.train (src/src/training/train.py).  A validation loss is a      *)
(* number of thousandths; the parameters the model holds after the epoch   *)
(* with loop variable e are named by e.                                    *)

\* Largest num_epochs of a training configuration.
MaxEpochs == 3

\* Largest early_stopping_patience of a training configuration.
MaxPatience == 3

\* Largest finite validation loss.
MaxLoss == 2

\* float('inf'), which validate returns when no user was sampled
Infinity == 1000000

\* what validate can return: a mean of binary cross-entropy losses, which is
\* never negative, or float('inf')
ValLosses == (0..MaxLoss) \cup {Infinity}

TrainConfigs ==
    [num_epochs : 0..MaxEpochs, early_stopping_patience : 1..MaxPatience,
     save_path : BOOLEAN]

\* Trainer.__init__ and the entry of train
InitTrain ==
    /\ tr_config \in TrainConfigs
    /\ tr_pc = "running"
    /\ tr_epoch = 0
    /\ best_val_score = 0
    /\ patience_counter = 0
    /\ history = <<>>
    /\ best_model_pt = None
    /\ ServingIdle
    /\ PrepIdle
    /\ ProfileIdle
    /\ FallbackIdle
    /\ GraphIdle
    /\ EvalIdle
    /\ DatasetIdle

\* one iteration of the loop of train: train_epoch, validate, then the early
\* stopping test with the save of the best model
Epoch(val_loss) ==
    /\ tr_pc = "running"
    /\ tr_epoch < tr_config.num_epochs
    /\ history' = Append(history, val_loss)
    /\ IF val_loss < best_val_score
       THEN /\ best_val_score' = val_loss
            /\ patience_counter' = 0
            /\ best_model_pt' =
                 IF tr_config.save_path
                 THEN Some([epoch |-> tr_epoch, model_state_dict |-> tr_epoch,
                            val_loss |-> val_loss])
                 ELSE best_model_pt
            /\ tr_epoch' = tr_epoch + 1
            /\ tr_pc' = "running"
       ELSE /\ patience_counter' = patience_counter + 1
            /\ UNCHANGED <<best_val_score, best_model_pt>>
            /\ IF patience_counter + 1 >= tr_config.early_stopping_patience
               THEN tr_pc' = "stopped" /\ tr_epoch' = tr_epoch
               ELSE tr_pc' = "running" /\ tr_epoch' = tr_epoch + 1
    /\ UNCHANGED <<servingVars, prepVars, profileVars, fallbackVars,
                   graphVars, evalVars, datasetVars, tr_config>>

\* the loop of train ends after num_epochs iterations and history is returned
Return ==
    /\ tr_pc = "running"
    /\ tr_epoch = tr_config.num_epochs
    /\ tr_pc' = "finished"
    /\ UNCHANGED <<servingVars, prepVars, profileVars, fallbackVars,
                   graphVars, evalVars, datasetVars, tr_config, tr_epoch,
                   best_val_score, patience_counter, history, best_model_pt>>

NextTrain == (\E val_loss \in ValLosses : Epoch(val_loss)) \/ Return

SpecTrain == InitTrain /\ [][NextTrain]_vars

-----------------------------------------------------------------------------
(* Properties of Trainer.train *)

\* the lowest validation loss of the first n epochs
RECURSIVE LowestOf(_, _)
LowestOf(losses, n) ==
    IF n = 1 THEN losses[1]
    ELSE IF losses[n] < LowestOf(losses, n - 1) THEN losses[n]
    ELSE LowestOf(losses, n - 1)

\* the loop variable of the first epoch that reached the lowest loss so far
BestEpoch ==
    (CHOOSE i \in DOMAIN history :
        /\ history[i] = LowestOf(history, Len(history))
        /\ \A j \in 1..(i - 1) : history[j] # history[i]) - 1

\* C17: with a save_path, after every epoch the checkpoint holds the
\* parameters, the epoch number and the validation loss of the epoch with the
\* lowest validation loss so far; it exists as soon as one epoch has ended
\* with a finite validation loss.
C17_CheckpointIsBestSoFar ==
    (tr_config.save_path /\ \E i \in DOMAIN history : history[i] # Infinity) =>
        /\ best_model_pt # None
        /\ Val(best_model_pt).val_loss = LowestOf(history, Len(history))
        /\ Val(best_model_pt).epoch = BestEpoch
        /\ Val(best_model_pt).model_state_dict = BestEpoch

\* the epoch that wrote history[i] did not improve on the best loss before it
NoImprovement(i) == i > 1 /\ ~(history[i] < LowestOf(history, i - 1))

\* the last `patience` epochs all ended without improvement
PatienceExhausted ==
    /\ Len(history) >= tr_config.early_stopping_patience
    /\ \A i \in (Len(history) - tr_config.early_stopping_patience + 1)..Len(history) :
          NoImprovement(i)

\* C18: train stops before num_epochs exactly when `patience` epochs in a
\* row ended without a validation loss below the best seen so far; a run
\* whose validation loss improves every epoch executes all num_epochs epochs.
C18_StopsExactlyOnPatience ==
    /\ Len(history) < tr_config.num_epochs =>
          ((tr_pc = "stopped") <=> PatienceExhausted)
    /\ (\A i \in DOMAIN history : ~NoImprovement(i)) =>
          ~(tr_pc = "stopped" /\ Len(history) < tr_config.num_epochs)

-----------------------------------------------------------------------------
(* InteractionDataset (src/src/training/train.py) *)

\* Largest n_negatives of a dataset.
MaxNegatives == 2

\* interactions["recipe_idx"].unique()
all_recipes(interactions) == {interactions[i].recipe_idx : i \in DOMAIN interactions}

\* interactions.groupby("user_idx")["recipe_idx"].apply(set), read with
\* .get(user, set())
user_recipes(interactions, user) ==
    {interactions[i].recipe_idx :
        i \in {j \in DOMAIN interactions : interactions[j].user_idx = user}}

\* the recipes np.random.choice draws the negative sample from
negative_pool(interactions, user) ==
    IF all_recipes(interactions) \ user_recipes(interactions, user) # {}
    THEN all_recipes(interactions) \ user_recipes(interactions, user)
    ELSE all_recipes(interactions)

\* InteractionDataset.__len__
dataset_len(interactions, n_neg) == Len(interactions) * (1 + n_neg)

\* InteractionDataset.__getitem__(idx), drawn being the outcome of
\* np.random.choice for a negative sample; indices count from 0
getitem(interactions, n_neg, idx, drawn) ==
    [user_idx |-> interactions[idx \div (1 + n_neg) + 1].user_idx,
     recipe_idx |-> IF idx % (1 + n_neg) = 0
                    THEN interactions[idx \div (1 + n_neg) + 1].recipe_idx
                    ELSE drawn,
     label |-> IF idx % (1 + n_neg) = 0 THEN 1 ELSE 0,
     rating |-> interactions[idx \div (1 + n_neg) + 1].rating]

\* the train split preprocessing.py maps to indices
DatasetInteractions ==
    UNION {[1..n -> [user_idx : 0..(MaxUsers - 1), recipe_idx : 0..(NRecipes - 1),
                     rating : {4}]] : n \in 0..MaxInteractions}

InitDataset ==
    /\ ds_interactions \in DatasetInteractions
    /\ n_negatives \in 0..MaxNegatives
    /\ ds_item = None
    /\ ServingIdle
    /\ PrepIdle
    /\ ProfileIdle
    /\ FallbackIdle
    /\ GraphIdle
    /\ EvalIdle
    /\ TrainIdle

\* one call of __getitem__
GetItem(idx) ==
    /\ idx < dataset_len(ds_interactions, n_negatives)
    /\ \E drawn \in negative_pool(ds_interactions,
                                  ds_interactions[idx \div (1 + n_negatives) + 1].user_idx) :
          ds_item' = Some([idx |-> idx,
                           item |-> getitem(ds_interactions, n_negatives, idx, drawn)])
    /\ UNCHANGED <<servingVars, prepVars, profileVars, fallbackVars,
                   graphVars, evalVars, trainVars, ds_interactions,
                   n_negatives>>

NextDataset == \E idx \in 0..(MaxInteractions * (1 + MaxNegatives) - 1) : GetItem(idx)

SpecDataset == InitDataset /\ [][NextDataset]_vars

-----------------------------------------------------------------------------
(* Properties of InteractionDataset *)

\* the interaction the last item was made from
ItemInteraction == ds_interactions[Val(ds_item).idx \div (1 + n_negatives) + 1]

\* C19: the items of an interaction are one item with label 1 carrying the
\* interaction's own user and recipe, then n_negatives items with label 0 for
\* the same user, each with a recipe the user has no interaction with.
C19_NegativesNotInteracted ==
    ds_item # None =>
        /\ Val(ds_item).item.user_idx = ItemInteraction.user_idx
        /\ Val(ds_item).item.label = 1 <=> Val(ds_item).idx % (1 + n_negatives) = 0
        /\ Val(ds_item).item.label = 1 =>
              Val(ds_item).item.recipe_idx = ItemInteraction.recipe_idx
        /\ Val(ds_item).item.label = 0 =>
              \A i \in DOMAIN ds_interactions :
                  ~(/\ ds_interactions[i].user_idx = Val(ds_item).item.user_idx
                    /\ ds_interactions[i].recipe_idx = Val(ds_item).item.recipe_idx)

-----------------------------------------------------------------------------
(* The fallback path on recipes of up to six ingredients, so that a match  *)
(* ratio below 0.2 occurs.                                                 *)

Blank == <<" ", " ">>

\* the recipes of RecipeKinds and one of six distinct ingredients
MatchKinds ==
    RecipeKinds \cup
    { [ingredients_list |-> Some(<<egg, flour, Nuts, butter, ham, Nut>>),
       prep_time |-> Some(40), calories |-> Some(600), protein |-> Some(30),
       carbohydrates |-> Some(40), total_fat |-> Some(20), rating |-> <<Some(5)>>] }

MatchRequests ==
    { [user_id |-> 1, available_ingredients |-> Some(a), max_time |-> None,
       dietary_preferences |-> None, top_k |-> k, use_profile |-> FALSE] :
        a \in {<<egg>>, <<egg, flour>>, <<Blank>>}, k \in 0..MaxTopK }

\* no bundle is loaded, so every request is served by the fallback
InitMatch ==
    /\ \E kinds \in UNION {[1..n -> MatchKinds] : n \in 0..NRecipes} :
         /\ recipes = RecipeRows(kinds)
         /\ reviews = ReviewRows(kinds, 1)
    /\ profiles = [u \in UserIds |-> None]
    /\ db_up = TRUE
    /\ response2 = None
    /\ model = None
    /\ graph_data = None
    /\ recipe_data = None
    /\ reranker = None
    /\ mappings = None
    /\ initCalls = 0
    /\ initPc = "idle"
    /\ initFiles = NoFiles
    /\ recPc = "idle"
    /\ recSeen = NoSeen
    /\ request = None
    /\ response = None
    /\ df_in = <<>>
    /\ prof_in = NoProfile
    /\ df_out = None
    /\ OfflineIdle

NextMatch == \E req \in MatchRequests : Recommend(req)

SpecMatch == InitMatch /\ [][NextMatch]_vars

\* C21: with a non-empty available-ingredient list, the fallback returns a
\* recipe only if it uses at least one available ingredient and its match
\* ratio, matched over distinct recipe ingredients, is at least 0.2; a recipe
\* with no ingredients is never returned.
C21_ReturnedOnlyIfMatching ==
    (FallbackAnswer /\ TruthyList(Req.available_ingredients)) =>
        \A i \in DOMAIN Resp.recipe_ids :
            /\ MatchOf(Resp.recipe_ids[i]).matched >= 1
            /\ MatchOf(Resp.recipe_ids[i]).total > 0
            /\ 5 * MatchOf(Resp.recipe_ids[i]).matched >= MatchOf(Resp.recipe_ids[i]).total

\* C21 witness: a recipe using 1 of its 6 ingredients is left out of an
\* answer that had room for it
C21_Witness ==
    /\ FallbackAnswer
    /\ Len(Resp.recipe_ids) < Req.top_k
    /\ \E r \in Range(recipes) :
          /\ MatchOf(r.recipe_id).matched = 1
          /\ MatchOf(r.recipe_id).total = 6
          /\ \A i \in DOMAIN Resp.recipe_ids : Resp.recipe_ids[i] # r.recipe_id

-----------------------------------------------------------------------------
(* Properties of the stages of apply_user_profile_filters *)

\* the frame after each of the five stages, in the order the code runs them
AfterAllergy == AllergyStage(df_in, prof_in)

AfterDietary == DietaryStage(AfterAllergy, prof_in)

AfterNutrition == NutritionStage(AfterDietary, prof_in)

AfterDisliked == DislikedStage(AfterNutrition, prof_in)

AfterPrepTime == PrepTimeStage(AfterDisliked, prof_in)

\* out holds rows of inp only, in the order of inp
Narrows(out, inp) ==
    /\ Range(out) \subseteq Range(inp)
    /\ out = SelectRows(inp, Range(out))

\* the row conditions of the stages, each under the test that runs the stage
PassesAllergy(r, p) ==
    TruthyList(p.allergies) => ~has_allergen(r.ingredients_list, Val(p.allergies))

PassesDietary(r, p) ==
    TruthyList(p.dietary_restrictions) =>
        ~has_forbidden_ingredient(r.ingredients_list,
            forbidden_ingredients(Val(p.dietary_restrictions)))

PassesNutrition(r, p) ==
    (Truthy(p.max_calories) \/ Truthy(p.min_protein) \/ Truthy(p.max_carbs)
        \/ Truthy(p.max_fat)) =>
        /\ IsNone(p.max_calories) \/ PassMax(r.calories, Val(p.max_calories))
        /\ IsNone(p.min_protein) \/ PassMin(r.protein, Val(p.min_protein))
        /\ IsNone(p.max_carbs) \/ PassMax(r.carbohydrates, Val(p.max_carbs))
        /\ IsNone(p.max_fat) \/ PassMax(r.total_fat, Val(p.max_fat))

PassesDisliked(r, p) ==
    TruthyList(p.disliked_ingredients) =>
        ~has_disliked_ingredient(r.ingredients_list, Val(p.disliked_ingredients))

PassesPrepTime(r, p) ==
    Truthy(p.max_prep_time) => PassMax(r.prep_time, Val(p.max_prep_time))

\* C22: apply_user_profile_filters runs allergy, dietary restriction,
\* nutrition, disliked ingredients and max prep time in this order; the output
\* of every stage holds rows of that stage's input only, so the result holds
\* rows of the frame passed in only, and every row of the result passes every
\* stage the profile activates.
C22_StagesNarrowInOrder ==
    ~IsNone(df_out) =>
        /\ Val(df_out) = AfterPrepTime
        /\ Narrows(AfterAllergy, df_in)
        /\ Narrows(AfterDietary, AfterAllergy)
        /\ Narrows(AfterNutrition, AfterDietary)
        /\ Narrows(AfterDisliked, AfterNutrition)
        /\ Narrows(AfterPrepTime, AfterDisliked)
        /\ Narrows(Val(df_out), df_in)
        /\ \A r \in Range(AfterAllergy) : PassesAllergy(r, prof_in)
        /\ \A r \in Range(AfterDietary) : PassesDietary(r, prof_in)
        /\ \A r \in Range(AfterNutrition) : PassesNutrition(r, prof_in)
        /\ \A r \in Range(AfterDisliked) : PassesDisliked(r, prof_in)
        /\ \A r \in Range(Val(df_out)) :
             /\ PassesAllergy(r, prof_in)
             /\ PassesDietary(r, prof_in)
             /\ PassesNutrition(r, prof_in)
             /\ PassesDisliked(r, prof_in)
             /\ PassesPrepTime(r, prof_in)

\* two stages are active and each removes a row the stages before it kept
C22_Witness ==
    /\ ~IsNone(df_out)
    /\ TruthyList(prof_in.allergies)
    /\ Truthy(prof_in.max_prep_time)
    /\ Len(AfterAllergy) < Len(df_in)
    /\ Len(Val(df_out)) < Len(AfterDisliked)

-----------------------------------------------------------------------------
(* The model path on a catalogue larger than 2 * top_k, so that re-ranking  *)
(* sees a proper part of the recipes.                                       *)

\* number of recipes of the catalogue
NCatalogue == 3

\* what initialize_model finds when the re-ranker's first layer fits
RerankFiles == {f \in InitFileChoices : f.raise_at = "none" /\ f.embedding_dim = 1}

RerankRequests == {req \in Requests : req.user_id = 1 /\ HasContext(req)}

InitRerank ==
    /\ \E kinds \in [1..NCatalogue -> RecipeKinds] :
         /\ recipes = RecipeRows(kinds)
         /\ reviews = ReviewRows(kinds, 1)
    /\ profiles \in ProfileTables
    /\ db_up = TRUE
    /\ response2 = None
    /\ model = None
    /\ graph_data = None
    /\ recipe_data = None
    /\ reranker = None
    /\ mappings = None
    /\ initCalls = 0
    /\ initPc = "idle"
    /\ initFiles = NoFiles
    /\ recPc = "idle"
    /\ recSeen = NoSeen
    /\ request = None
    /\ response = None
    /\ df_in = <<>>
    /\ prof_in = NoProfile
    /\ df_out = None
    /\ OfflineIdle

NextRerank ==
    \/ \E files \in RerankFiles : InitializeModel(files)
    \/ \E req \in RerankRequests : Recommend(req)

SpecRerank == InitRerank /\ [][NextRerank]_vars

-----------------------------------------------------------------------------
(* Properties of re-ranking *)

\* the response came from the model path after the re-ranker ran
RerankRan == Answered /\ Resp.status = "ok" /\ Resp.path = "model_reranked"

\* the scores of the forward pass, by recipe index
Scores == BaseScores(Val(model), Len(Val(mappings).idx_to_recipe))

\* the recipe index of a returned id
IdxOf(recipe_id) ==
    CHOOSE i \in DOMAIN Val(mappings).idx_to_recipe :
        Val(mappings).idx_to_recipe[i] = recipe_id

\* the adjusted score of the recipe at index idx
Adjusted(idx) ==
    mlp(Val(reranker), Scores[idx],
        encode_context(IF IsNone(Req.available_ingredients) THEN <<>>
                       ELSE Val(Req.available_ingredients),
                       CandidateIngredients(idx, Val(mappings), Val(recipe_data))))

\* a >= b in the order of np.argsort(...)[::-1], which puts NaN first
SortsBefore(a, b) == IsNaN(a) \/ (~IsNaN(b) /\ RLe(b, a))

\* S is a set of the n best of universe: no member left out sorts before all
\* those taken
BaseTop(S, universe, n) ==
    /\ S \subseteq universe
    /\ Cardinality(S) = Min(n, Cardinality(universe))
    /\ \A a \in S, b \in universe \ S : SortsBefore(Scores[a], Scores[b])

AdjustedTop(S, universe, n) ==
    /\ S \subseteq universe
    /\ Cardinality(S) = Min(n, Cardinality(universe))
    /\ \A a \in S, b \in universe \ S : SortsBefore(Adjusted(a), Adjusted(b))

ReturnedIdx == {IdxOf(Resp.recipe_ids[i]) : i \in DOMAIN Resp.recipe_ids}

DescendingAdjusted ==
    \A i, j \in DOMAIN Resp.recipe_ids :
        i < j => SortsBefore(Adjusted(IdxOf(Resp.recipe_ids[i])),
                             Adjusted(IdxOf(Resp.recipe_ids[j])))

\* the profile filter of the model path is on and takes the recipe out
RemovedByProfile(idx) ==
    /\ Req.use_profile
    /\ ~IsNone(ReqProfile)
    /\ ~should_include(Val(RecipeRow(Val(recipe_data), Val(mappings).idx_to_recipe[idx])),
                       Val(ReqProfile))

\* C23 as stated: after re-ranking the returned recipes are among the
\* 2 * top_k candidates with the highest base scores, at most top_k of them,
\* and they are the top_k of those candidates by adjusted score, in
\* descending adjusted-score order.
C23_ReturnedAreTopKAdjusted ==
    RerankRan =>
        /\ Len(Resp.recipe_ids) <= Req.top_k
        /\ DescendingAdjusted
        /\ \E C \in SUBSET DOMAIN Scores :
              /\ BaseTop(C, DOMAIN Scores, 2 * Req.top_k)
              /\ AdjustedTop(ReturnedIdx, C, Req.top_k)

\* C23: after re-ranking the returned recipes are those of the top_k by
\* adjusted score, taken among the 2 * top_k candidates with the highest base
\* scores, that the profile filter of the model path leaves in, in descending
\* adjusted-score order.
C23_ReturnedAreKeptTopKAdjusted ==
    RerankRan =>
        /\ Len(Resp.recipe_ids) <= Req.top_k
        /\ DescendingAdjusted
        /\ \E C \in SUBSET DOMAIN Scores :
              /\ BaseTop(C, DOMAIN Scores, 2 * Req.top_k)
              /\ \E T \in SUBSET C :
                    /\ AdjustedTop(T, C, Req.top_k)
                    /\ ReturnedIdx \subseteq T
                    /\ \A idx \in T \ ReturnedIdx : RemovedByProfile(idx)

\* a recipe outside the 2 * top_k candidates has the highest adjusted score
\* and is not returned; the re-ranked order differs from the base order
C23_Witness ==
    /\ RerankRan
    /\ Req.top_k = 1
    /\ Len(Resp.recipe_ids) = 1
    /\ \E idx \in DOMAIN Scores \ ReturnedIdx :
          /\ ~IsNaN(Adjusted(idx))
          /\ \A r \in ReturnedIdx :
                ~IsNaN(Adjusted(r)) /\ RLt(Adjusted(r), Adjusted(idx))
    /\ \E idx \in DOMAIN Scores \ ReturnedIdx :
          \A r \in ReturnedIdx : ~IsNaN(Scores[r]) /\ RLt(Scores[r], Scores[idx])

-----------------------------------------------------------------------------
(* preprocess_from_db (src/src/data/db_to_processed.py): the frames          *)
(* DataPreprocessor.process returned are cut down to the rows that have an   *)
(* index and handed to GraphBuilder.  gb_interactions is                     *)
(* processed_data["train"], gb_recipes processed_data["recipes"],             *)
(* gb_mappings processed_data["mappings"], gb_built the graph.  A NaN of an  *)
(* index column is None.                                                     *)

\* Series.map(dict): the value of the key, NaN for a key the dict lacks
MapIdx(table, key) == IF key \in DOMAIN table THEN Some(table[key]) ELSE None

\* the frame with its NaN rows left in
dropna_keeps_all(df, subset) == df

\* DataFrame.dropna(subset=...): the rows with a value in every column given
dropna(df, subset) ==
    SelectRows(df, {r \in Range(df) : \A c \in subset : ~IsNone(r[c])})

\* what the cast of NaN to int64 gives is not defined: the smallest int64 on
\* x86 (here a negative number below every index), 0 on ARM
NaNCasts == {0, -1000000}

\* ndarray.astype(np.int64) of one entry of a float column
AsInt64(v, nan_cast) == IF IsNone(v) THEN nan_cast ELSE Val(v)

\* the rows as GraphBuilder reads them
IndexedInteractions(df, nan_cast) ==
    [i \in DOMAIN df |->
        [user_idx |-> AsInt64(df[i].user_idx, nan_cast),
         recipe_idx |-> AsInt64(df[i].recipe_idx, nan_cast),
         rating |-> df[i].rating]]

IndexedRecipes(df, nan_cast) ==
    [i \in DOMAIN df |->
        [recipe_idx |-> AsInt64(df[i].recipe_idx, nan_cast),
         ingredients_list |-> df[i].ingredients_list]]

\* lines 197-199: recipe_idx is added to the recipes frame
WithRecipeIdx(df, mp) ==
    [i \in DOMAIN df |->
        [recipe_id |-> df[i].recipe_id,
         recipe_idx |-> MapIdx(mp.recipe_to_idx, df[i].recipe_id),
         ingredients_list |-> df[i].ingredients_list]]

\* lines 183-210: dropna on both frames, then build_hetero_graph
preprocess_graph(train, processed_recipes, mp, nan_cast) ==
    build_hetero_graph(
        IndexedInteractions(dropna(train, {"user_idx", "recipe_idx"}), nan_cast),
        IndexedRecipes(dropna(WithRecipeIdx(processed_recipes, mp), {"recipe_idx"}),
                       nan_cast),
        mp, TRUE)

\* processed_data["train"] as process leaves it (preprocessing.py 354-367):
\* the users are those of the mappings, a recipe id need not be a recipe of
\* the recipes table; both index columns are the map of the id columns
TrainRows(mp) ==
    { [user_id |-> u, recipe_id |-> r, rating |-> rt,
       user_idx |-> MapIdx(mp.user_to_idx, u),
       recipe_idx |-> MapIdx(mp.recipe_to_idx, r)] :
        u \in DOMAIN mp.user_to_idx, r \in {RecipeId(i) : i \in 1..NRecipes},
        rt \in {None, Some(4)} }

\* rows in the order of their (user, recipe) pairs, one row per pair
TrainFrames(mp) ==
    {s \in UNION {[1..n -> TrainRows(mp)] : n \in 0..MaxInteractions} :
        \A i, j \in DOMAIN s :
            i < j => \/ s[i].user_id < s[j].user_id
                     \/ /\ s[i].user_id = s[j].user_id
                        /\ s[i].recipe_id < s[j].recipe_id}

\* processed_data["recipes"]: one row per recipe of the mappings
ProcessedRecipes(mp) ==
    { [i \in 1..n_recipes_of(mp) |->
          [recipe_id |-> RecipeId(i), ingredients_list |-> lists[i]]] :
        lists \in [1..n_recipes_of(mp) -> GraphIngredientLists] }

InitConvert ==
    /\ gb_mappings \in GraphMappings
    /\ gb_interactions \in TrainFrames(gb_mappings)
    /\ gb_recipes \in ProcessedRecipes(gb_mappings)
    /\ gb_built = None
    /\ ServingIdle
    /\ PrepIdle
    /\ ProfileIdle
    /\ FallbackIdle
    /\ EvalIdle
    /\ TrainIdle
    /\ DatasetIdle

PreprocessFromDb(nan_cast) ==
    /\ gb_built = None
    /\ gb_built' = Some([call |-> "preprocess_from_db",
                         result |-> preprocess_graph(gb_interactions, gb_recipes,
                                                     gb_mappings, nan_cast)])
    /\ UNCHANGED <<servingVars, prepVars, profileVars, fallbackVars,
                   gb_interactions, gb_recipes, gb_mappings, evalVars,
                   trainVars, datasetVars>>

NextConvert == \E nan_cast \in NaNCasts : PreprocessFromDb(nan_cast)

SpecConvert == InitConvert /\ [][NextConvert]_vars

-----------------------------------------------------------------------------
(* Properties of preprocess_from_db *)

\* the rows of the train frame whose two ids have an index
MappedTrain ==
    SelectRows(gb_interactions,
        {r \in Range(gb_interactions) :
            /\ r.user_id \in DOMAIN gb_mappings.user_to_idx
            /\ r.recipe_id \in DOMAIN gb_mappings.recipe_to_idx})

Converted == gb_built # None /\ Val(gb_built).call = "preprocess_from_db"

\* C24: a row whose user id or recipe id has no index in the mappings
\* yields no edge: the user -> recipe edges are those of the rows with both
\* indices, one per row and in their order, every endpoint is the index of
\* the row's id (the recipe's after the users) and so inside the ranges of
\* the graph, and the call returns a graph.
C24_UnmappedRowsDropped ==
    Converted =>
        /\ Len(Built.interacts_with.edge_index[1]) = Len(MappedTrain)
        /\ \A i \in DOMAIN MappedTrain :
              /\ Built.interacts_with.edge_index[1][i]
                   = gb_mappings.user_to_idx[MappedTrain[i].user_id]
              /\ Built.interacts_with.edge_index[2][i]
                   = gb_mappings.recipe_to_idx[MappedTrain[i].recipe_id] + NUsers
        /\ \A u \in Range(Built.interacts_with.edge_index[1]) : 0 <= u /\ u < NUsers
        /\ \A r \in Range(Built.interacts_with.edge_index[2])
                    \cup Range(Val(Built.contains)[1]) :
              NUsers <= r /\ r < NUsers + NRecipesMapped

\* a row with a recipe id outside the mappings was dropped, another row kept
C24_Witness ==
    /\ Converted
    /\ Len(MappedTrain) = 1
    /\ Len(gb_interactions) = 2
    /\ Len(Built.interacts_with.edge_index[1]) = 1

-----------------------------------------------------------------------------
(* DataPreprocessor (src/src/data/preprocessing.py): filter_data and         *)
(* create_user_recipe_mappings.  A frame is the sequence of its rows.        *)

\* Largest number of rows in the interactions frame.
MaxPrepRows == 4

\* Largest number of rows in the recipes frame.
MaxPrepRecipes == 3

PrepUserIds == {1, 2}

PrepRecipeIds == {11, 12, 13}

\* the values the two thresholds are given
PrepThresholds == {1, 2}

\* Series.value_counts(): the number of rows per value of the column
value_counts(df, col) ==
    [v \in {df[i][col] : i \in DOMAIN df} |->
        Cardinality({i \in DOMAIN df : df[i][col] = v})]

\* df[df[col].isin(values)]
isin_rows(df, col, values) ==
    SelectRows(df, {r \in Range(df) : r[col] \in values})

\* counts[counts >= minimum].index
at_least(counts, minimum) == {v \in DOMAIN counts : counts[v] >= minimum}

\* filter_data, lines 69-73: the user filter
user_filtered(interactions, min_users) ==
    isin_rows(interactions, "user_id",
              at_least(value_counts(interactions, "user_id"), min_users))

\* lines 75-77: the recipes rated often enough by the users kept
valid_recipes(interactions, min_users, min_ratings) ==
    at_least(value_counts(user_filtered(interactions, min_users), "recipe_id"),
             min_ratings)

filter_data(interactions, recipes_df, min_users, min_ratings) ==
    [interactions |->
        isin_rows(user_filtered(interactions, min_users), "recipe_id",
                  valid_recipes(interactions, min_users, min_ratings)),
     recipes |->
        isin_rows(recipes_df, "recipe_id",
                  valid_recipes(interactions, min_users, min_ratings))]

\* enumerate over the column with its repeated values left in
enumerate_sorted_rows(df, col) ==
    [v \in {df[i][col] : i \in DOMAIN df} |->
        Cardinality({i \in DOMAIN df : df[i][col] < v})]

\* {id: idx for idx, id in enumerate(sorted(df[col].unique()))}
enumerate_sorted_unique(df, col) ==
    [v \in {df[i][col] : i \in DOMAIN df} |->
        Cardinality({w \in {df[i][col] : i \in DOMAIN df} : w < v})]

\* {idx: id for id, idx in to_idx.items()}: of two ids with one index the
\* later one of the dict stays
inverse_dict(to_idx) ==
    [i \in {to_idx[v] : v \in DOMAIN to_idx} |->
        CHOOSE v \in DOMAIN to_idx :
            /\ to_idx[v] = i
            /\ \A w \in DOMAIN to_idx : to_idx[w] = i => w <= v]

create_user_recipe_mappings(interactions, recipes_df) ==
    [user_to_idx |-> enumerate_sorted_unique(interactions, "user_id"),
     recipe_to_idx |-> enumerate_sorted_unique(recipes_df, "recipe_id"),
     idx_to_user |-> inverse_dict(enumerate_sorted_unique(interactions, "user_id")),
     idx_to_recipe |-> inverse_dict(enumerate_sorted_unique(recipes_df, "recipe_id"))]

\* rows in the order of their (user, recipe) pairs; a pair may repeat
PrepInteractions ==
    {s \in UNION {[1..n -> [user_id : PrepUserIds, recipe_id : PrepRecipeIds]] :
                    n \in 0..MaxPrepRows} :
        \A i, j \in DOMAIN s :
            i < j => \/ s[i].user_id < s[j].user_id
                     \/ /\ s[i].user_id = s[j].user_id
                        /\ s[i].recipe_id <= s[j].recipe_id}

\* rows in the order of their ids; an id may repeat
PrepRecipes ==
    {s \in UNION {[1..n -> [recipe_id : PrepRecipeIds]] : n \in 0..MaxPrepRecipes} :
        \A i, j \in DOMAIN s : i < j => s[i].recipe_id <= s[j].recipe_id}

InitPrep ==
    /\ pp_interactions \in PrepInteractions
    /\ pp_recipes \in PrepRecipes
    /\ min_user_interactions \in PrepThresholds
    /\ min_recipe_ratings \in PrepThresholds
    /\ pp_result = None
    /\ ServingIdle
    /\ GraphIdle
    /\ EvalIdle
    /\ TrainIdle
    /\ DatasetIdle
    /\ ProfileIdle
    /\ FallbackIdle

FilterData ==
    /\ pp_result = None
    /\ pp_result' = Some([call |-> "filter_data",
                          result |-> filter_data(pp_interactions, pp_recipes,
                                                 min_user_interactions,
                                                 min_recipe_ratings)])
    /\ UNCHANGED <<servingVars, graphVars, evalVars, trainVars, datasetVars,
                   profileVars, fallbackVars, pp_interactions, pp_recipes,
                   min_user_interactions, min_recipe_ratings>>

CreateUserRecipeMappings ==
    /\ pp_result = None
    /\ pp_result' = Some([call |-> "create_user_recipe_mappings",
                          result |-> create_user_recipe_mappings(pp_interactions,
                                                                 pp_recipes)])
    /\ UNCHANGED <<servingVars, graphVars, evalVars, trainVars, datasetVars,
                   profileVars, fallbackVars, pp_interactions, pp_recipes,
                   min_user_interactions, min_recipe_ratings>>

NextPrep == FilterData \/ CreateUserRecipeMappings

SpecPrep == InitPrep /\ [][NextPrep]_vars

-----------------------------------------------------------------------------
(* Properties of DataPreprocessor *)

Mapped == pp_result # None /\ Val(pp_result).call = "create_user_recipe_mappings"

Mp == Val(pp_result).result

\* to_idx sends ids one-to-one onto 0 .. n - 1 and back_to is its inverse
InvertibleOnto(to_idx, back_to, ids) ==
    /\ DOMAIN to_idx = ids
    /\ {to_idx[v] : v \in ids} = 0..(Cardinality(ids) - 1)
    /\ \A v, w \in ids : v # w => to_idx[v] # to_idx[w]
    /\ DOMAIN back_to = 0..(Cardinality(ids) - 1)
    /\ \A v \in ids : back_to[to_idx[v]] = v

\* C25: user_to_idx maps the distinct user ids of the interactions
\* one-to-one onto 0..n_users-1, recipe_to_idx the distinct recipe ids of the
\* recipes frame onto 0..n_recipes-1, and idx_to_user, idx_to_recipe are
\* their inverses.
C25_MappingsInvertible ==
    Mapped =>
        /\ InvertibleOnto(Mp.user_to_idx, Mp.idx_to_user,
                          {pp_interactions[i].user_id : i \in DOMAIN pp_interactions})
        /\ InvertibleOnto(Mp.recipe_to_idx, Mp.idx_to_recipe,
                          {pp_recipes[i].recipe_id : i \in DOMAIN pp_recipes})

\* two users and three recipes are numbered from frames that repeat an id
C25_Witness ==
    /\ Mapped
    /\ Cardinality(DOMAIN Mp.user_to_idx) = 2
    /\ Cardinality(DOMAIN Mp.recipe_to_idx) = 2
    /\ Len(pp_interactions) > 2
    /\ Len(pp_recipes) > 2

FilterCalled == pp_result # None /\ Val(pp_result).call = "filter_data"

\* the interactions and the recipes filter_data returned
Kept == Val(pp_result).result.interactions

KeptRecipes == Val(pp_result).result.recipes

\* C30: in the interactions filter_data returns every remaining user has at
\* least min_user_interactions remaining rows and every remaining recipe at
\* least min_recipe_ratings remaining rows; the recipes returned are recipes
\* of the remaining interactions.
C30_MinimumsHoldAfterFilter ==
    FilterCalled =>
        /\ \A u \in DOMAIN value_counts(Kept, "user_id") :
              value_counts(Kept, "user_id")[u] >= min_user_interactions
        /\ \A r \in DOMAIN value_counts(Kept, "recipe_id") :
              value_counts(Kept, "recipe_id")[r] >= min_recipe_ratings
        /\ \A i \in DOMAIN KeptRecipes :
              KeptRecipes[i].recipe_id \in DOMAIN value_counts(Kept, "recipe_id")

\* the two parts of C30 about recipes, which the order of the two filters
\* does not disturb
C30_RecipePartsHold ==
    FilterCalled =>
        /\ \A r \in DOMAIN value_counts(Kept, "recipe_id") :
              value_counts(Kept, "recipe_id")[r] >= min_recipe_ratings
        /\ \A i \in DOMAIN KeptRecipes :
              KeptRecipes[i].recipe_id \in DOMAIN value_counts(Kept, "recipe_id")

-----------------------------------------------------------------------------
(* Order of the scores of a response *)

\* a >= b as numbers
NotBelow(a, b) == ~IsNaN(a) /\ ~IsNaN(b) /\ RLe(b, a)

NonIncreasing(scores) ==
    \A i \in DOMAIN scores : i + 1 \in DOMAIN scores => NotBelow(scores[i], scores[i + 1])

\* C26: in every response the score at position i is at least the score at
\* position i + 1, on the model path with or without re-ranking and allergy
\* filtering, and on the fallback path.
C26_ScoresNonIncreasing == Answered => NonIncreasing(Resp.scores)

\* the part of C26 about the fallback path
C26_FallbackNonIncreasing ==
    (Answered /\ Resp.path = "fallback") => NonIncreasing(Resp.scores)

\* the part of C26 about the model path without re-ranking, for scores that
\* are numbers
C26_BaseOrderNonIncreasing ==
    (Answered /\ Resp.path = "model" /\ \A i \in DOMAIN Resp.scores : ~IsNaN(Resp.scores[i]))
        => NonIncreasing(Resp.scores)

\* a re-ranked response whose scores are numbers and go up along the list
C26_RerankedAscending ==
    /\ RerankRan
    /\ Len(Resp.scores) = 2
    /\ ~IsNaN(Resp.scores[1]) /\ ~IsNaN(Resp.scores[2])
    /\ RLt(Resp.scores[1], Resp.scores[2])

-----------------------------------------------------------------------------
(* _get_fallback_recommendations with a statement of its body failing.  The *)
(* body runs inside one try block (lines 1100-1431); the reviews query and  *)
(* the profile stage have handlers of their own.                            *)

\* the statement that raises: none, the recipes query (1110-1128), the
\* reviews query (1133-1138), db_instance.get_user_profile (1160), a
\* statement of the scoring steps (1205-1431)
Faults == {"none", "recipes_query", "reviews_query", "get_user_profile", "scoring"}

\* an exception leaving the try body
Raised == [status |-> "raised", path |-> "fallback", recipe_ids |-> <<>>,
           scores |-> <<>>, explanations |-> <<>>]

\* the outer handler left out: the exception leaves the function
outer_handler_reraises(r) == r

\* lines 1433-1439: except Exception returns the error response
outer_handler(r) ==
    IF r = Raised
    THEN RecommendationResponse("fallback", <<>>, <<>>, <<Message("error")>>)
    ELSE r

\* the try body: a failed reviews query leaves recipe_scores empty (1139-1141),
\* a failed profile load leaves the frame unfiltered (1198-1199)
fallback_body(req, recipes_df, reviews_df, user_profile, fault) ==
    IF fault = "recipes_query" THEN Raised
    ELSE IF fault = "scoring" /\ recipes_df # <<>> THEN Raised
    ELSE _get_fallback_recommendations(req, recipes_df,
             IF fault = "reviews_query" THEN <<>> ELSE reviews_df,
             IF fault = "get_user_profile" THEN None ELSE user_profile,
             TRUE)

fallback_with_fault(req, recipes_df, reviews_df, user_profile, fault) ==
    outer_handler(fallback_body(req, recipes_df, reviews_df, user_profile, fault))

InitFallback ==
    /\ \E kinds \in KindSeqs :
         /\ recipes = RecipeRows(kinds)
         /\ reviews = ReviewRows(kinds, 1)
    /\ profiles \in ProfileTables
    /\ db_up = TRUE
    /\ response2 = None
    /\ model = None
    /\ graph_data = None
    /\ recipe_data = None
    /\ reranker = None
    /\ mappings = None
    /\ initCalls = 0
    /\ initPc = "idle"
    /\ initFiles = NoFiles
    /\ recPc = "idle"
    /\ recSeen = NoSeen
    /\ request = None
    /\ response = None
    /\ df_in = <<>>
    /\ prof_in = NoProfile
    /\ df_out = None
    /\ OfflineIdle

\* one call of _get_fallback_recommendations
FallbackCall(req, fault) ==
    /\ fb_request = None
    /\ fb_request' = Some(req)
    /\ fb_fault' = fault
    /\ fb_response' = Some(fallback_with_fault(req, recipes, reviews,
                                               profiles[req.user_id], fault))
    /\ UNCHANGED <<servingVars, graphVars, evalVars, trainVars, datasetVars,
                   prepVars, profileVars>>

NextFallback == \E req \in Requests, fault \in Faults : FallbackCall(req, fault)

SpecFallback == InitFallback /\ [][NextFallback]_vars

-----------------------------------------------------------------------------
(* Properties of the failing fallback scorer *)

FbCalled == ~IsNone(fb_request) /\ ~IsNone(fb_response)

FbReq == Val(fb_request)

FbResp == Val(fb_response)

\* what the call returns when nothing fails
FbNormal(reviews_df, user_profile) ==
    _get_fallback_recommendations(FbReq, recipes, reviews_df, user_profile, TRUE)

EmptyAnswer == FbResp.recipe_ids = <<>> /\ FbResp.scores = <<>>

\* C27 as stated: the call never raises; a failure ends in a response with
\* recipe_ids and scores both empty, or in a normal response when it was
\* confined to loading the profile (or to parsing one row, which is a row
\* without ingredient list here).
C27_FailureGivesEmptyOrProfileOnly ==
    FbCalled =>
        /\ FbResp.status = "ok"
        /\ fb_fault = "none" => FbResp = FbNormal(reviews, profiles[FbReq.user_id])
        /\ fb_fault = "get_user_profile" => FbResp = FbNormal(reviews, None)
        /\ fb_fault \notin {"none", "get_user_profile"} => EmptyAnswer

\* C27: the call never raises; a failure ends in a response with recipe_ids
\* and scores both empty, or in a normal response when it was confined to
\* loading the reviews or loading the profile (or to parsing one row).
C27_FailureGivesEmptyOrNormal ==
    FbCalled =>
        /\ FbResp.status = "ok"
        /\ fb_fault = "none" => FbResp = FbNormal(reviews, profiles[FbReq.user_id])
        /\ fb_fault = "get_user_profile" => FbResp = FbNormal(reviews, None)
        /\ fb_fault = "reviews_query" => FbResp = FbNormal(<<>>, profiles[FbReq.user_id])
        /\ fb_fault \in {"recipes_query", "scoring"} => EmptyAnswer

\* a scoring step failed on a store with recipes and the call answered with
\* the error response
C27_Witness ==
    /\ FbCalled
    /\ fb_fault = "scoring"
    /\ recipes # <<>>
    /\ FbReq.top_k > 0
    /\ FbResp.status = "ok"
    /\ EmptyAnswer
    /\ FbNormal(reviews, profiles[FbReq.user_id]).recipe_ids # <<>>

-----------------------------------------------------------------------------
(* initialize_model failing at any of its steps, called again, and requests *)
(* served between the calls                                                 *)

\* the steps whose exception reaches the outer handler; a failure to load
\* the checkpoint is caught at line 231 and does not
RaisingSteps == {"mappings", "graph", "recipes", "model", "embed", "reranker"}

InitFailFiles ==
    InitFileChoices \cup
    { [mappings_ok |-> TRUE, graph_ok |-> TRUE, recipes_ok |-> TRUE,
       raise_at |-> st, weights |-> "asc", embedding_dim |-> 128] :
        st \in RaisingSteps }

NextInitFail ==
    \/ \E files \in InitFailFiles : InitCall(files)
    \/ InitAdvance
    \/ \E req \in ConcRequests : Recommend(req)

SpecInitFail == InitConc /\ [][NextInitFail]_vars

\* the last call of initialize_model has returned from its outer handler
LastInitRaised ==
    /\ initCalls >= 1
    /\ initPc = "idle"
    /\ initFiles.raise_at \in RaisingSteps

\* C28: when a call of initialize_model has ended in its outer handler, the
\* five globals are all None and a request that arrives is answered by the
\* fallback scorer, as long as no later call has loaded the bundle.
C28_FailedInitLeavesNoBundle ==
    LastInitRaised =>
        /\ Globals = NoGlobals
        /\ \A req \in ConcRequests :
              recommend(req, model, graph_data, recipe_data, reranker, mappings,
                        recipes, reviews, profiles[req.user_id], db_up)
                = Fallback(req)

\* a second call failed at the re-ranker, after it had loaded the four other
\* globals again, and a request was answered by the fallback scorer
C28_Witness ==
    /\ LastInitRaised
    /\ initCalls = 2
    /\ initFiles.raise_at = "reranker"
    /\ Answered
    /\ Resp.path = "fallback"
    /\ Resp.recipe_ids # <<>>

-----------------------------------------------------------------------------
(* The user_profiles table (src/src/api/database.py): create_user_profile,  *)
(* update_user_preferences, delete_user_profile.  The table is the sequence *)
(* of its rows; a nullable column holds an optional value.                  *)

\* Largest number of calls followed.
MaxProfileCalls == 3

ann == <<"a","n","n">>

mail == <<"a","@","x">>

\* the columns of UserProfile the model keeps
ProfileColumns ==
    {"user_id", "username", "email", "allergies", "max_calories", "created_at",
     "updated_at"}

\* UserProfile(user_id=...): every other column NULL, the two dates set from
\* the clock when the row is inserted
NewProfile(user_id, now) ==
    [user_id |-> user_id, username |-> None, email |-> None, allergies |-> None,
     max_calories |-> None, created_at |-> now, updated_at |-> now]

\* a dict of up to four keys; each argument is the key's value if the key
\* is there
Preferences(allergies, max_calories, user_id, nickname) ==
    [k \in {c \in {"allergies", "max_calories", "user_id", "nickname"} :
              \/ c = "allergies" /\ ~IsNone(allergies)
              \/ c = "max_calories" /\ ~IsNone(max_calories)
              \/ c = "user_id" /\ ~IsNone(user_id)
              \/ c = "nickname" /\ ~IsNone(nickname)} |->
        IF k = "allergies" THEN Val(allergies)
        ELSE IF k = "max_calories" THEN Val(max_calories)
        ELSE IF k = "user_id" THEN Val(user_id)
        ELSE Val(nickname)]

\* session.query(UserProfile).filter(UserProfile.user_id == user_id).first()
first_profile(table, user_id) ==
    LET hits == {i \in DOMAIN table : table[i].user_id = user_id}
    IN  IF hits = {} THEN 0 ELSE CHOOSE i \in hits : \A k \in hits : i <= k

\* the fields set on an object that is then written back whole: what is not
\* passed becomes NULL
setattrs_resets(row, fields) ==
    [c \in DOMAIN row |->
        IF c \in DOMAIN fields THEN fields[c]
        ELSE IF c \in {"user_id", "created_at"} THEN row[c] ELSE None]

\* for key, value in ...: if hasattr(profile, key): setattr(profile, key, value)
setattrs(row, fields) ==
    [c \in DOMAIN row |-> IF c \in DOMAIN fields THEN fields[c] ELSE row[c]]

\* the keys of a dict that are columns
ColumnsOf(fields) == [c \in DOMAIN fields \cap ProfileColumns |-> fields[c]]

\* username and email as create_user_profile sets them: only when not None
NamedFields(username, email) ==
    [c \in {k \in {"username", "email"} :
              (k = "username" /\ ~IsNone(username)) \/ (k = "email" /\ ~IsNone(email))} |->
        IF c = "username" THEN username ELSE email]

\* the table breaks the primary key or the unique index on email
IntegrityError(table) ==
    \E i, j \in DOMAIN table :
        /\ i # j
        /\ \/ table[i].user_id = table[j].user_id
           \/ ~IsNone(table[i].email) /\ table[i].email = table[j].email

\* session.commit(): the changed table, or the table as it was and an
\* exception (rollback, raise)
commit(before, after) ==
    IF IntegrityError(after) THEN [table |-> before, raised |-> TRUE]
    ELSE [table |-> after, raised |-> FALSE]

create_user_profile(table, user_id, username, email, preferences, now) ==
    IF first_profile(table, user_id) # 0
    THEN commit(table,
           [table EXCEPT ![first_profile(table, user_id)] =
              [setattrs(setattrs(@, NamedFields(username, email)),
                        ColumnsOf(preferences))
                 EXCEPT !.updated_at = now]])
    ELSE commit(table,
           Append(table,
              setattrs([NewProfile(user_id, now) EXCEPT !.username = username,
                                                        !.email = email],
                       preferences)))

update_user_preferences(table, user_id, preferences, now) ==
    IF first_profile(table, user_id) # 0
    THEN commit(table,
           [table EXCEPT ![first_profile(table, user_id)] =
              [setattrs(@, ColumnsOf(preferences)) EXCEPT !.updated_at = now]])
    ELSE commit(table,
           Append(table,
              [setattrs(NewProfile(user_id, now), ColumnsOf(preferences))
                 EXCEPT !.updated_at = now]))

delete_user_profile(table, user_id) ==
    IF first_profile(table, user_id) = 0 THEN [table |-> table, raised |-> FALSE]
    ELSE [table |-> SelectRows(table, Range(table) \ {table[first_profile(table, user_id)]}),
          raised |-> FALSE]

InitProfiles ==
    /\ user_profiles = <<>>
    /\ utcnow = 0
    /\ db_last = None
    /\ ServingIdle
    /\ GraphIdle
    /\ EvalIdle
    /\ TrainIdle
    /\ DatasetIdle
    /\ PrepIdle
    /\ FallbackIdle

\* what a call leaves behind: the table, the clock one tick later, the record
\* of the call
ProfileCall(call, user_id, passed, outcome) ==
    /\ utcnow < MaxProfileCalls
    /\ user_profiles' = outcome.table
    /\ utcnow' = utcnow + 1
    /\ db_last' = Some([call |-> call, user_id |-> user_id, passed |-> passed,
                        before |-> user_profiles, raised |-> outcome.raised])
    /\ UNCHANGED <<servingVars, graphVars, evalVars, trainVars, datasetVars,
                   prepVars, fallbackVars>>

\* POST /user/{user_id}/profile
CreateUserProfile(user_id, username, email, preferences) ==
    ProfileCall("create_user_profile", user_id,
                DOMAIN NamedFields(username, email) \cup DOMAIN preferences,
                create_user_profile(user_profiles, user_id, username, email,
                                    preferences, utcnow + 1))

\* PATCH /user/{user_id}/profile
UpdateUserPreferences(user_id, preferences) ==
    ProfileCall("update_user_preferences", user_id, DOMAIN preferences,
                update_user_preferences(user_profiles, user_id, preferences,
                                        utcnow + 1))

\* DELETE /user/{user_id}/profile
DeleteUserProfile(user_id) ==
    ProfileCall("delete_user_profile", user_id, {},
                delete_user_profile(user_profiles, user_id))

\* POST takes the fields of UserProfileRequest that are not None; the body
\* of PATCH is any JSON object: a null, a key that is no column, user_id
NextProfiles ==
    \/ \E user_id \in UserIds, username \in {None, Some(ann)},
          email \in {None, Some(mail)},
          allergies \in {None, Some(Some(<<Nut>>))},
          max_calories \in {None, Some(Some(300))} :
            CreateUserProfile(user_id, username, email,
                              Preferences(allergies, max_calories, None, None))
    \/ \E user_id \in UserIds,
          allergies \in {None, Some(Some(<<Nut>>)), Some(None)},
          max_calories \in {None, Some(Some(300))},
          new_id \in {None} \cup {Some(u) : u \in UserIds},
          nickname \in {None, Some(Some(ann))} :
            UpdateUserPreferences(user_id,
                                  Preferences(allergies, max_calories, new_id, nickname))
    \/ \E user_id \in UserIds : DeleteUserProfile(user_id)

SpecProfiles == InitProfiles /\ [][NextProfiles]_vars

-----------------------------------------------------------------------------
(* Properties of the user_profiles table *)

Last == Val(db_last)

\* the last call was a create or an update for a user who had a profile
OnExisting ==
    /\ db_last # None
    /\ Last.call \in {"create_user_profile", "update_user_preferences"}
    /\ first_profile(Last.before, Last.user_id) # 0

\* the position of the profile the last call was for
At == first_profile(Last.before, Last.user_id)

\* C29: there is at most one stored profile per user_id; a create or update
\* on an existing profile changes only the fields passed in the call and
\* updated_at: every other field of that profile and every other profile
\* keeps its value.
C29_OnlyPassedFieldsChange ==
    /\ \A i, j \in DOMAIN user_profiles :
          i # j => user_profiles[i].user_id # user_profiles[j].user_id
    /\ OnExisting =>
          /\ Len(user_profiles) = Len(Last.before)
          /\ \A i \in DOMAIN user_profiles :
                i # At => user_profiles[i] = Last.before[i]
          /\ \A c \in ProfileColumns \ (Last.passed \cup {"updated_at"}) :
                user_profiles[At][c] = Last.before[At][c]

\* an update changed one field of a profile that holds other fields, next to
\* the profile of another user
C29_Witness ==
    /\ OnExisting
    /\ ~Last.raised
    /\ Len(user_profiles) = 2
    /\ Last.passed = {"allergies"}
    /\ user_profiles[At].allergies # Last.before[At].allergies
    /\ ~IsNone(user_profiles[At].max_calories)

====
